---- MODULE Spec2Model ----
(***************************************************************************)
(* A model of the reconciliation engine of the cluster autoscaler:         *)
(* StaticAutoscaler.RunOnce with its bounds-enforcement block, the         *)
(* snapshot construction, the scale-up and scale-down decisions and the    *)
(* deferred status write, the node-removability predicate                  *)
(* checkWorkerNodeCanBeRemove and the configuration readers                *)
(* GetMinSizeNodeGroup / GetMaxSizeNodeGroup.                              *)
(*                                                                         *)
(* Node names are pairs <<kind, number>>: <<"worker", 3>> stands for a     *)
(* name such as "cluster-worker3", <<"master", 1>> for a control-plane     *)
(* node, <<"", 0>> for the empty string.  Times are in milliseconds.       *)
(***************************************************************************)
EXTENDS Integers, Sequences, FiniteSets, TLC

\* ------------------------------------------------------------------ bounds

\* Worker nodes are numbered 1..MaxNodeIdx.
MaxNodeIdx == 2

\* The caller's clock runs from StartTime to StartTime + MaxElapsed * ClockStep.
MaxElapsed == 2

\* The largest node count a planner asks the provider for.
MaxPlannerCount == 1

\* ------------------------------------------------------- program constants

Second == 1000
Hour == 3600 * Second

\* unschedulablePodTimeBuffer = 2 * time.Second
unschedulablePodTimeBuffer == 2 * Second

\* The process-wide clock when NewStaticAutoscaler runs.
StartTime == Hour

\* ------------------------------------------------------------------- names

WorkerName(i) == <<"worker", i>>
EmptyName == <<"", 0>>

WorkerNames == {WorkerName(i) : i \in 1..MaxNodeIdx}

\* strings.Contains(node.Name, "worker")
ContainsWorker(name) == name[1] = "worker"

\* strings.HasSuffix(nodeName, "worker" + strconv.Itoa(n))
HasSuffixWorkerN(name, n) == name[1] = "worker" /\ name[2] = n

\* --------------------------------------------------- configuration readers

NoKey == <<"<absent>">>

Digits == <<"0", "1", "2", "3", "4", "5", "6", "7", "8", "9">>
IsDigit(c) == \E d \in 1..10 : Digits[d] = c
DigitVal(c) == (CHOOSE d \in 1..10 : Digits[d] = c) - 1

RECURSIVE ParseDigits(_, _)
ParseDigits(s, acc) ==
  IF s = <<>> THEN acc ELSE ParseDigits(Tail(s), acc * 10 + DigitVal(Head(s)))

\* strconv.Atoi: an optional sign, then one or more decimal digits.
Atoi(s) ==
  LET signed == s # <<>> /\ Head(s) \in {"+", "-"}
      body == IF signed THEN Tail(s) ELSE s
  IN IF body = <<>> \/ \E i \in 1..Len(body) : ~IsDigit(body[i])
       THEN [err |-> TRUE, value |-> 0]
       ELSE [err |-> FALSE,
             value |-> IF signed /\ Head(s) = "-"
                         THEN 0 - ParseDigits(body, 0)
                         ELSE ParseDigits(body, 0)]

\* The result of a reader: klog.Fatalf ends the process, otherwise a value.
FatalRead == [fatal |-> TRUE, value |-> 0]
ValueRead(v) == [fatal |-> FALSE, value |-> v]

\* One reader for both keys; cm is the configmap as the API returns it:
\* [exists, min, max], a Data value being a string (a sequence of characters)
\* or NoKey.
GetSizeNodeGroupMutant(cm, v) ==
  IF ~cm.exists THEN FatalRead
  ELSE IF v = NoKey THEN ValueRead(0)
  ELSE IF Atoi(v).err THEN ValueRead(0)
  ELSE ValueRead(Atoi(v).value)

GetSizeNodeGroupAbsentMutant(cm, v) ==
  IF ~cm.exists \/ v = NoKey THEN FatalRead
  ELSE IF Atoi(v).err THEN FatalRead
  ELSE ValueRead(Atoi(v).value)

GetSizeNodeGroup(cm, v) ==
  IF ~cm.exists THEN FatalRead
  ELSE IF v = NoKey THEN ValueRead(0)
  ELSE IF Atoi(v).err THEN FatalRead
  ELSE ValueRead(Atoi(v).value)

GetMinSizeNodeGroup(cm) == GetSizeNodeGroup(cm, cm.min)
GetMaxSizeNodeGroup(cm) == GetSizeNodeGroup(cm, cm.max)

ConfigMap(mn, mx) == [exists |-> TRUE, min |-> mn, max |-> mx]

\* The configmaps an administrator may have installed.
ConfigMaps ==
  { ConfigMap(<<"1">>, <<"2">>),
    ConfigMap(<<"1">>, <<"1">>),
    ConfigMap(<<"2">>, <<"1">>),
    ConfigMap(<<"1">>, NoKey),
    ConfigMap(<<"x">>, <<"2">>),
    ConfigMap(<<"1">>, <<"2", ".", "0">>),
    [exists |-> FALSE, min |-> NoKey, max |-> NoKey] }

\* ------------------------------------------------ the removability predicate

\* A pod as the predicate reads it.
Pod(nodeName, owners, volumes) ==
  [nodeName |-> nodeName, ownerReferences |-> owners, volumes |-> volumes]

Owner(kind, name) == [kind |-> kind, name |-> name]

\* ReplicaSets(ns).Get(name): Status.Replicas of the replica set of that name,
\* 0 (the empty object the client returns with the error) when there is none.
ReplicaSetReplicas(rs, name) == IF name \in DOMAIN rs THEN rs[name] ELSE 0

HasEmptyDir(pod) == \E i \in 1..Len(pod.volumes) : pod.volumes[i] = "emptyDir"

\* The body of the loop for a pod of the node whose first owner is no
\* DaemonSet: the replica set of one replica, the emptyDir volume.
PodBlocksMutant(pod, rs) ==
  ReplicaSetReplicas(rs, pod.ownerReferences[1].name) = 1

PodBlocks(pod, rs) ==
  \/ ReplicaSetReplicas(rs, pod.ownerReferences[1].name) = 1
  \/ HasEmptyDir(pod)

\* The loop of checkWorkerNodeCanBeRemove over pods.Items, in order.
\* pod.OwnerReferences[0] of a pod without owner references panics.
RECURSIVE CanBeRemoveLoop(_, _, _, _)
CanBeRemoveLoop(pods, rs, workerNodeName, canBeRemove) ==
  IF pods = <<>> THEN [panic |-> FALSE, canBeRemove |-> canBeRemove]
  ELSE LET pod == Head(pods) IN
    IF pod.nodeName # workerNodeName
      THEN CanBeRemoveLoop(Tail(pods), rs, workerNodeName, canBeRemove)
    ELSE IF pod.ownerReferences = <<>>
      THEN [panic |-> TRUE, canBeRemove |-> canBeRemove]
    ELSE IF pod.ownerReferences[1].kind = "DaemonSet"
      THEN CanBeRemoveLoop(Tail(pods), rs, workerNodeName, canBeRemove)
    ELSE CanBeRemoveLoop(Tail(pods), rs, workerNodeName,
                         canBeRemove /\ ~PodBlocks(pod, rs))

checkWorkerNodeCanBeRemove(pods, rs, workerNodeName) ==
  CanBeRemoveLoop(pods, rs, workerNodeName, TRUE)

\* ------------------------------------------------------------------ options

\* AutoscalingOptions and the configured processors, fixed at construction.
\* ScaleDownDelayAfterAdd / AfterDelete / AfterFailure are the options read
\* at the cooldown gate.
ScaleDownDelayAfterAdd == 10 * 60 * Second
ScaleDownDelayAfterDelete == 2 * 60 * Second
ScaleDownDelayAfterFailure == 3 * 60 * Second

\* The caller's clock advances by multiples of ClockStep between iterations.
ClockStep == 2 * 60 * Second
MaxClock == StartTime + MaxElapsed * ClockStep

Options(write, sdEnabled, bulk, sdProc, delay) ==
  [WriteStatusConfigMap |-> write, ScaleDownEnabled |-> sdEnabled,
   MaxBulkSoftTaintCount |-> bulk, ScaleDownStatusProcessor |-> sdProc,
   NewPodScaleUpDelay |-> delay]

OptionSets ==
  { Options(TRUE, TRUE, 10, TRUE, 0),
    Options(FALSE, TRUE, 0, TRUE, Second),
    Options(TRUE, FALSE, 10, FALSE, 0) }

\* ------------------------------------------------------------------- state

VARIABLES
  nodes,        \* the numbers of the worker nodes the cluster has
  cfg,          \* the configmap autoscaling-configmap
  opts,         \* the autoscaler's options
  provQueue,    \* the provider's requests that reached no terminal status yet
  provStatus,   \* the cluster status the provider reports
  a,            \* the StaticAutoscaler's fields
  snapshot,     \* the ClusterSnapshot: its nodes and its (pod, node) pairs
  pc,           \* the position of RunOnce
  currentTime,  \* RunOnce's currentTime; between iterations the caller's clock
  loc,          \* RunOnce's local variables
  ret,          \* what the last RunOnce returned
  log,          \* the calls RunOnce made in this iteration, in order
  input,        \* the arguments of a function evaluated on its own
  output        \* and its result: "true", "false" or "panic"

vars == <<nodes, cfg, opts, provQueue, provStatus, a, snapshot, pc,
          currentTime, loc, ret, log, input, output>>

Ev(e, n) == [ev |-> e, n |-> n]

Logged(e) == \E i \in 1..Len(log) : log[i].ev = e
CountLogged(e) == Cardinality({i \in 1..Len(log) : log[i].ev = e})

\* The locals of RunOnce before the first statement.
InitLoc ==
  [numberWorkerNode |-> 0,
   workerNameToRemove |-> EmptyName,
   count |-> 0,
   workerNodeNameList |-> {},
   allNodes |-> {},
   deferReg |-> FALSE,
   scaleUpResult |-> "ScaleUpNotTried",
   scaleDownResult |-> "ScaleDownNotTried",
   scaleUpStatusProcessorAlreadyCalled |-> FALSE,
   scaleDownStatusProcessorAlreadyCalled |-> FALSE,
   tryResult |-> "none",
   typedErr |-> "nil"]

\* NewStaticAutoscaler: the three cooldown stamps start one hour before the
\* construction time; initialized is false.
NewStaticAutoscalerMutant ==
  [initialized |-> FALSE,
   lastScaleUpTime |-> StartTime + Hour,
   lastScaleDownDeleteTime |-> StartTime + Hour,
   lastScaleDownFailTime |-> StartTime + Hour,
   disableScaleDownForLoop |-> FALSE,
   unneededNodes |-> {}]

NewStaticAutoscaler ==
  [initialized |-> FALSE,
   lastScaleUpTime |-> StartTime - Hour,
   lastScaleDownDeleteTime |-> StartTime - Hour,
   lastScaleDownFailTime |-> StartTime - Hour,
   disableScaleDownForLoop |-> FALSE,
   unneededNodes |-> {}]

Init ==
  /\ nodes \in SUBSET (1..MaxNodeIdx)
  /\ cfg \in ConfigMaps
  /\ opts \in OptionSets
  /\ provQueue = <<>>
  /\ provStatus = "SUCCEEDED"
  /\ a = NewStaticAutoscaler
  /\ snapshot = [nodes |-> {}, pods |-> {}]
  /\ pc = "idle"
  /\ currentTime = StartTime
  /\ loc = InitLoc
  /\ ret = "none"
  /\ log = <<>>
  /\ input = <<>>
  /\ output = "none"

\* ---------------------------------------------------------------- provider

\* PerformScaleUp / PerformScaleDown: the request is accepted and the cluster
\* status becomes SCALING.
Request(kind, n) == [kind |-> kind, n |-> n]

PerformScale(kind, n) ==
  /\ provQueue' = Append(provQueue, Request(kind, n))
  /\ provStatus' = "SCALING"

\* CheckStatusCluster / CheckErrorStatusCluster
CheckStatusCluster == provStatus = "SUCCEEDED"
CheckErrorStatusCluster == provStatus = "ERROR"

\* The node sets a request may leave: n new workers (within the provider's
\* capacity MaxNodeIdx), or n workers fewer, which ones being the provider's
\* choice.  A request for no node or a negative number changes nothing.
Outcomes(req) ==
  IF req.n <= 0 THEN {nodes}
  ELSE IF req.kind = "Up"
    THEN {nodes \cup S : S \in {T \in SUBSET ((1..MaxNodeIdx) \ nodes) :
                                   Cardinality(T) = req.n}}
    ELSE {nodes \ S : S \in {T \in SUBSET nodes : Cardinality(T) = req.n}}

AfterTerminal(status) ==
  /\ provQueue' = Tail(provQueue)
  /\ provStatus' = IF Tail(provQueue) = <<>> THEN status ELSE "SCALING"

ProviderSucceed ==
  /\ provQueue # <<>>
  /\ nodes' \in Outcomes(Head(provQueue))
  /\ AfterTerminal("SUCCEEDED")
  /\ UNCHANGED <<cfg, opts, input, output, a, snapshot, pc, currentTime, loc, ret, log>>

ProviderFail ==
  /\ provQueue # <<>>
  /\ AfterTerminal("ERROR")
  /\ UNCHANGED <<nodes, cfg, opts, input, output, a, snapshot, pc, currentTime, loc, ret, log>>

\* ------------------------------------------------- what the orchestrator holds

\* The largest number of pods a pod listing returns.
MaxPods == 2

\* The replica sets of the cluster: rs1 reports one replica, rs2 two.
ReplicaSets == ("rs1" :> 1) @@ ("rs2" :> 2)

\* The pods a listing may hold, hosted on one of the given node names.
PodsOn(names) ==
  { Pod(n, o, v) :
      n \in names,
      o \in { <<>>, <<Owner("ReplicaSet", "rs1")>>, <<Owner("ReplicaSet", "rs2")>>,
              <<Owner("DaemonSet", "ds")>>, <<Owner("StatefulSet", "sts")>> },
      v \in { <<>>, <<"emptyDir">> } }

\* A node name other than the given one.
OtherName(name) == IF name = EmptyName THEN WorkerName(1) ELSE EmptyName

SeqsUpTo(S, n) == UNION {[1..k -> S] : k \in 0..n}

\* AllNodeLister().List() when it succeeds.
ListedNodes == {<<"master", 1>>} \cup {WorkerName(i) : i \in nodes}

\* ------------------------------------------------------- RunOnce: the returns

\* ClusterSnapshot.Clear()
SnapshotClear == [nodes |-> {}, pods |-> {}]

DeferredMutant(l) ==
  IF ~l.deferReg THEN <<>>
  ELSE (IF opts.WriteStatusConfigMap THEN <<Ev("WriteStatusConfigMap", 0)>> ELSE <<>>)
       \o <<Ev("ScaleUpStatusProcessor.Process", 0)>>
       \o (IF ~l.scaleDownStatusProcessorAlreadyCalled /\ opts.ScaleDownStatusProcessor
             THEN <<Ev("ScaleDownStatusProcessor.Process", 0)>> ELSE <<>>)
       \o <<Ev("AutoscalingStatusProcessor.Process", 0)>>

\* The deferred function of RunOnce (registered once the cluster state was
\* updated): the status write, the status processors not called yet, the
\* autoscaling status processor.
Deferred(l) ==
  IF ~l.deferReg THEN <<>>
  ELSE (IF opts.WriteStatusConfigMap THEN <<Ev("WriteStatusConfigMap", 0)>> ELSE <<>>)
       \o (IF ~l.scaleUpStatusProcessorAlreadyCalled
             THEN <<Ev("ScaleUpStatusProcessor.Process", 0)>> ELSE <<>>)
       \o (IF ~l.scaleDownStatusProcessorAlreadyCalled /\ opts.ScaleDownStatusProcessor
             THEN <<Ev("ScaleDownStatusProcessor.Process", 0)>> ELSE <<>>)
       \o <<Ev("AutoscalingStatusProcessor.Process", 0)>>

\* What RunOnce leaves of its locals when it returns: the two status results.
Returned(l) ==
  [InitLoc EXCEPT !.scaleUpResult = l.scaleUpResult,
                  !.scaleDownResult = l.scaleDownResult]

\* return r, with the locals l and the calls lg made so far.  The
\* ClusterSnapshot object outlives the iteration, but RunOnce reads it only
\* after Clear(): what it holds between two iterations is not kept.
ReturnMutant(r, l, lg) ==
  /\ pc' = "idle"
  /\ ret' = r
  /\ log' = Deferred(l) \o lg
  /\ loc' = Returned(l)
  /\ snapshot' = SnapshotClear

Return(r, l, lg) ==
  /\ pc' = "idle"
  /\ ret' = r
  /\ log' = lg \o Deferred(l)
  /\ loc' = Returned(l)
  /\ snapshot' = SnapshotClear

\* klog.Fatalf / log.Fatal (how = "fatal") or a panic: the process ends.
Crash(how) ==
  /\ pc' = "exited"
  /\ ret' = how
  /\ UNCHANGED <<loc, log, snapshot>>

\* ------------------------------------------- RunOnce: start and bounds block

cleanUpIfRequiredMutant(readyOK) ==
  IF ~readyOK THEN <<Ev("ReadyNodeLister.List", 0)>>
  ELSE <<Ev("ReadyNodeLister.List", 1), Ev("CleanAllToBeDeleted", 0)>>
       \o (IF opts.MaxBulkSoftTaintCount = 0
             THEN <<Ev("CleanAllDeletionCandidates", 0)>> ELSE <<>>)

\* cleanUpIfRequired: the calls it makes; it sets initialized in every case.
cleanUpIfRequired(readyOK) ==
  IF a.initialized THEN <<>>
  ELSE IF ~readyOK THEN <<Ev("ReadyNodeLister.List", 0)>>
  ELSE <<Ev("ReadyNodeLister.List", 1), Ev("CleanAllToBeDeleted", 0)>>
       \o (IF opts.MaxBulkSoftTaintCount = 0
             THEN <<Ev("CleanAllDeletionCandidates", 0)>> ELSE <<>>)

\* obtainNodeLists: the node list, empty (nil) when a listing failed.
obtainNodeLists(listOK) == IF listOK THEN ListedNodes ELSE {}

\* RunOnce up to the first comparison: cleanup, callback reset, the first
\* node listing (its error is not looked at) and the worker count.
RunOnceStart ==
  /\ pc = "idle"
  /\ \E step \in 1..MaxElapsed, readyOK \in BOOLEAN, listOK \in BOOLEAN :
       /\ currentTime + step * ClockStep <= MaxClock
       /\ a.initialized => readyOK
       /\ currentTime' = currentTime + step * ClockStep
       /\ LET workerNodeNameList ==
                {n \in obtainNodeLists(listOK) : ContainsWorker(n)}
          IN /\ loc' = [InitLoc EXCEPT
                          !.workerNodeNameList = workerNodeNameList,
                          !.numberWorkerNode = Cardinality(workerNodeNameList)]
             /\ log' = cleanUpIfRequired(readyOK)
                         \o <<Ev("obtainNodeLists",
                                 IF listOK THEN Cardinality(workerNodeNameList)
                                           ELSE -1)>>
  /\ a' = [a EXCEPT !.initialized = TRUE, !.disableScaleDownForLoop = FALSE]
  /\ pc' = "cmpMin"
  /\ ret' = "running"
  /\ UNCHANGED <<nodes, cfg, opts, input, output, provQueue, provStatus, snapshot>>

\* if numberWorkerNode < GetMinSizeNodeGroup(kubeclient)
LessThanMinMutant(w, mn) == w <= mn
LessThanMin(w, mn) == w < mn

CompareMin ==
  /\ pc = "cmpMin"
  /\ LET r == GetMinSizeNodeGroup(cfg) IN
       IF r.fatal THEN Crash("fatal")
       ELSE /\ pc' = IF LessThanMin(loc.numberWorkerNode, r.value)
                       THEN "scaleUp" ELSE "cmpMax"
            /\ UNCHANGED <<ret, loc, log>>
  /\ UNCHANGED <<nodes, cfg, opts, input, output, provQueue, provStatus, a, snapshot, currentTime>>

BoundsScaleUpMutant ==
  /\ pc = "scaleUp"
  /\ LET r == GetMinSizeNodeGroup(cfg) IN
       IF r.fatal THEN Crash("fatal") /\ UNCHANGED <<provQueue, provStatus, a>>
       ELSE LET n == r.value - loc.numberWorkerNode IN
            /\ PerformScale("Up", n)
            /\ a' = [a EXCEPT !.lastScaleUpTime = currentTime]
            /\ loc' = [loc EXCEPT !.count = n]
            /\ log' = Append(log, Ev("PerformScaleUp", n))
            /\ pc' = "pollUp"
            /\ UNCHANGED ret
  /\ UNCHANGED <<nodes, cfg, opts, input, output, snapshot, currentTime>>

\* workerCountNeedToScaledUp and the first PerformScaleUp
BoundsScaleUp ==
  /\ pc = "scaleUp"
  /\ LET r == GetMinSizeNodeGroup(cfg) IN
       IF r.fatal THEN Crash("fatal") /\ UNCHANGED <<provQueue, provStatus>>
       ELSE LET n == r.value - loc.numberWorkerNode IN
            /\ PerformScale("Up", n)
            /\ loc' = [loc EXCEPT !.count = n]
            /\ log' = Append(log, Ev("PerformScaleUp", n))
            /\ pc' = "pollUp"
            /\ UNCHANGED ret
  /\ UNCHANGED <<nodes, cfg, opts, input, output, a, snapshot, currentTime>>

\* The polling loop after the first request, up to CheckStatusCluster.
PollStatus(kind) ==
  /\ pc = "poll" \o kind
  /\ pc' = IF CheckStatusCluster THEN "relist" ELSE "pollErr" \o kind
  /\ UNCHANGED <<nodes, cfg, opts, input, output, provQueue, provStatus, a, snapshot,
                 currentTime, loc, ret, log>>

\* isErrorStatus := utils.CheckErrorStatusCluster(...)
isErrorStatusMutant == provStatus # "SUCCEEDED"
isErrorStatus == CheckErrorStatusCluster

\* if isErrorStatus: the request is issued again.
PollErrorStatus(kind) ==
  /\ pc = "pollErr" \o kind
  /\ IF isErrorStatus
       THEN /\ PerformScale(kind, loc.count)
            /\ log' = Append(log, Ev(IF kind = "Up" THEN "PerformScaleUp"
                                                    ELSE "PerformScaleDown", loc.count))
            /\ pc' = "pollRetry" \o kind
       ELSE /\ pc' = "poll" \o kind
            /\ UNCHANGED <<provQueue, provStatus, log>>
  /\ UNCHANGED <<nodes, cfg, opts, input, output, a, snapshot, currentTime, loc, ret>>

PollRetryMutant(kind) ==
  /\ pc = "pollRetry" \o kind
  /\ IF CheckStatusCluster
       THEN /\ pc' = "relist"
            /\ UNCHANGED <<provQueue, provStatus, log>>
       ELSE /\ CheckErrorStatusCluster
            /\ PerformScale(kind, loc.count)
            /\ log' = Append(log, Ev(IF kind = "Up" THEN "PerformScaleUp"
                                                    ELSE "PerformScaleDown", loc.count))
            /\ pc' = pc
  /\ UNCHANGED <<nodes, cfg, opts, input, output, a, snapshot, currentTime, loc, ret>>

\* The inner loop after the retry: it ends on SUCCEEDED only.
PollRetry(kind) ==
  /\ pc = "pollRetry" \o kind
  /\ CheckStatusCluster
  /\ pc' = "relist"
  /\ UNCHANGED <<nodes, cfg, opts, input, output, provQueue, provStatus, a, snapshot,
                 currentTime, loc, ret, log>>

\* else if numberWorkerNode > GetMaxSizeNodeGroup(kubeclient)
GreaterThanMaxMutant(w, mx) == w >= mx
GreaterThanMax(w, mx) == w > mx

CompareMax ==
  /\ pc = "cmpMax"
  /\ LET r == GetMaxSizeNodeGroup(cfg) IN
       IF r.fatal THEN Crash("fatal")
       ELSE /\ pc' = IF GreaterThanMax(loc.numberWorkerNode, r.value)
                       THEN "scaleDown" ELSE "relist"
            /\ UNCHANGED <<ret, loc, log>>
  /\ UNCHANGED <<nodes, cfg, opts, input, output, provQueue, provStatus, a, snapshot, currentTime>>

\* The candidate: the worker whose name ends with "worker<W>", the empty
\* name when there is none.
WorkerNameToRemove(workerNodeNameList) ==
  LET hits == {n \in workerNodeNameList :
                 HasSuffixWorkerN(n, Cardinality(workerNodeNameList))}
  IN IF hits = {} THEN EmptyName ELSE CHOOSE n \in hits : TRUE

BoundsScaleDownMutant ==
  /\ pc = "scaleDown"
  /\ LET r == GetMaxSizeNodeGroup(cfg)
         name == WorkerNameToRemove(loc.workerNodeNameList)
     IN IF r.fatal THEN Crash("fatal") /\ UNCHANGED <<provQueue, provStatus>>
        ELSE \E podsOK \in BOOLEAN,
                pods \in SeqsUpTo(PodsOn({name, OtherName(name)}), MaxPods) :
          LET n == loc.numberWorkerNode - r.value
              can == checkWorkerNodeCanBeRemove(pods, ReplicaSets, name)
              l == [loc EXCEPT !.workerNameToRemove = name, !.count = n]
          IN IF ~podsOK THEN Crash("fatal") /\ UNCHANGED <<provQueue, provStatus>>
             ELSE IF can.panic THEN Crash("panic") /\ UNCHANGED <<provQueue, provStatus>>
             ELSE /\ PerformScale("Down", n)
                  /\ loc' = l
                  /\ log' = log \o <<Ev("checkWorkerNodeCanBeRemove",
                                        IF can.canBeRemove THEN 1 ELSE 0),
                                     Ev("PerformScaleDown", n)>>
                  /\ pc' = "pollDown"
                  /\ UNCHANGED <<ret, snapshot>>
  /\ UNCHANGED <<nodes, cfg, opts, input, output, a, currentTime>>

\* The candidate, workerCountNeedToScaledDown, the removability predicate
\* and the first PerformScaleDown.
BoundsScaleDown ==
  /\ pc = "scaleDown"
  /\ LET r == GetMaxSizeNodeGroup(cfg)
         name == WorkerNameToRemove(loc.workerNodeNameList)
     IN IF r.fatal THEN Crash("fatal") /\ UNCHANGED <<provQueue, provStatus>>
        ELSE \E podsOK \in BOOLEAN,
                pods \in SeqsUpTo(PodsOn({name, OtherName(name)}), MaxPods) :
          LET n == loc.numberWorkerNode - r.value
              can == checkWorkerNodeCanBeRemove(pods, ReplicaSets, name)
              l == [loc EXCEPT !.workerNameToRemove = name, !.count = n]
          IN IF ~podsOK THEN Crash("fatal") /\ UNCHANGED <<provQueue, provStatus>>
             ELSE IF can.panic THEN Crash("panic") /\ UNCHANGED <<provQueue, provStatus>>
             ELSE IF ~can.canBeRemove
               THEN /\ Return("nil", l, Append(log, Ev("checkWorkerNodeCanBeRemove", 0)))
                    /\ UNCHANGED <<provQueue, provStatus>>
             ELSE /\ PerformScale("Down", n)
                  /\ loc' = l
                  /\ log' = log \o <<Ev("checkWorkerNodeCanBeRemove", 1),
                                     Ev("PerformScaleDown", n)>>
                  /\ pc' = "pollDown"
                  /\ UNCHANGED <<ret, snapshot>>
  /\ UNCHANGED <<nodes, cfg, opts, input, output, a, currentTime>>

\* ------------------------------------- RunOnce: listings and the snapshot

\* The ClusterSnapshot's operations.  AddNode fails for a node the snapshot
\* holds already, AddPod for a node it does not hold.
AddNode(snap, n) ==
  IF n \in snap.nodes THEN [err |-> TRUE, snap |-> snap]
  ELSE [err |-> FALSE, snap |-> [snap EXCEPT !.nodes = @ \cup {n}]]

AddPod(snap, p, n) ==
  IF n \notin snap.nodes THEN [err |-> TRUE, snap |-> snap]
  ELSE [err |-> FALSE, snap |-> [snap EXCEPT !.pods = @ \cup {<<p, n>>}]]

\* A listed workload: its name, the node it is scheduled on (Spec.NodeName),
\* its nominated node, its age at currentTime and whether its priority is
\* below the expendable cutoff.
Workload(name, nodeName, nominated, age, expendable) ==
  [name |-> name, nodeName |-> nodeName, nominatedNodeName |-> nominated,
   age |-> age, expendable |-> expendable]

\* core_utils.FilterOutExpendablePods
FilterOutExpendablePods(pods) == SelectSeq(pods, LAMBDA p : ~p.expendable)

\* initializeClusterSnapshot: the nodes, then the scheduled pods whose node
\* is among them; the first failing Add ends it with InternalError.
RECURSIVE AddNodes(_, _)
AddNodes(snap, ns) ==
  IF ns = {} THEN [err |-> FALSE, snap |-> snap]
  ELSE LET n == CHOOSE x \in ns : TRUE
           r == AddNode(snap, n)
       IN IF r.err THEN r ELSE AddNodes(r.snap, ns \ {n})

\* if knownNodes[pod.Spec.NodeName]
KnownNode(knownNodes, pod) == pod.nodeName \in knownNodes

RECURSIVE AddScheduledPods(_, _, _)
AddScheduledPods(snap, knownNodes, pods) ==
  IF pods = <<>> THEN [err |-> FALSE, snap |-> snap]
  ELSE LET pod == Head(pods) IN
    IF KnownNode(knownNodes, pod)
      THEN LET r == AddPod(snap, pod.name, pod.nodeName)
           IN IF r.err THEN r ELSE AddScheduledPods(r.snap, knownNodes, Tail(pods))
      ELSE AddScheduledPods(snap, knownNodes, Tail(pods))

initializeClusterSnapshot(ns, scheduledPods) ==
  LET r == AddNodes(SnapshotClear, ns)
  IN IF r.err THEN r ELSE AddScheduledPods(r.snap, ns, scheduledPods)

\* The worker numbers among the listed nodes.
ListedWorkers(ns) == {n[2] : n \in {x \in ns : ContainsWorker(x)}}

\* allNodes, readyNodes, typedErr = a.obtainNodeLists(): the second listing,
\* whose error is returned.
Relist ==
  /\ pc = "relist"
  /\ \E listOK \in BOOLEAN :
       IF ~listOK
         THEN Return("ApiCallError", loc, Append(log, Ev("obtainNodeLists", -1)))
         ELSE /\ loc' = [loc EXCEPT !.allNodes = obtainNodeLists(listOK)]
              /\ log' = Append(log, Ev("obtainNodeLists",
                                       Cardinality(ListedWorkers(obtainNodeLists(listOK)))))
              /\ pc' = "listPods"
              /\ UNCHANGED <<ret, snapshot>>
  /\ UNCHANGED <<nodes, cfg, opts, input, output, provQueue, provStatus, a, currentTime>>

\* The scheduled pods a listing may return: names p1, p2, each on a worker
\* name (one the cluster has or not).
ScheduledPodLists ==
  SeqsUpTo({Workload(n, w, EmptyName, 0, e) :
              n \in {"p1"}, w \in WorkerNames, e \in BOOLEAN}, 1)

\* From the scheduled-pod listing to the registration of the deferred
\* function: ShouldAbort, the daemon-set listing, the snapshot, the cluster
\* state update.
ListAndSnapshot ==
  /\ pc = "listPods"
  /\ \E podsOK \in BOOLEAN, abort \in {"no", "nil", "InternalError"},
        dsOK \in BOOLEAN, scheduled \in ScheduledPodLists :
       LET lg1 == Append(log, Ev("ScheduledPodLister.List", IF podsOK THEN 1 ELSE 0))
           lg2 == Append(lg1, Ev("DaemonSetLister.List", IF dsOK THEN 1 ELSE 0))
           r == initializeClusterSnapshot(loc.allNodes,
                                          FilterOutExpendablePods(scheduled))
           lg3 == Append(lg2, Ev("initializeClusterSnapshot", IF r.err THEN 0 ELSE 1))
       IN IF ~podsOK THEN Return("ApiCallError", loc, lg1)
          ELSE IF abort # "no" THEN Return(abort, loc, lg1)
          ELSE IF ~dsOK THEN Return("ApiCallError", loc, lg2)
          ELSE IF r.err THEN Return("InternalError", loc, lg3)
          ELSE /\ snapshot' = r.snap
               /\ loc' = [loc EXCEPT !.deferReg = TRUE]
               /\ log' = lg3
               /\ pc' = "health"
               /\ UNCHANGED ret
  /\ UNCHANGED <<nodes, cfg, opts, input, output, provQueue, provStatus, a, currentTime>>

\* if !a.clusterStateRegistry.IsClusterHealthy()
HealthCheckMutant ==
  /\ pc = "health"
  /\ \E healthy \in BOOLEAN :
       IF ~healthy
         THEN /\ a' = a
              /\ Return("nil", loc, Append(log, Ev("CleanUpUnneededNodes", 0)))
         ELSE /\ pc' = "unsched"
              /\ UNCHANGED <<a, loc, ret, log, snapshot>>
  /\ UNCHANGED <<nodes, cfg, opts, input, output, provQueue, provStatus, currentTime>>

HealthCheck ==
  /\ pc = "health"
  /\ \E healthy \in BOOLEAN :
       IF ~healthy
         THEN /\ a' = [a EXCEPT !.unneededNodes = {}]
              /\ Return("nil", loc, Append(log, Ev("CleanUpUnneededNodes", 0)))
         ELSE /\ pc' = "unsched"
              /\ UNCHANGED <<a, loc, ret, log, snapshot>>
  /\ UNCHANGED <<nodes, cfg, opts, input, output, provQueue, provStatus, currentTime>>

\* ------------------------------------------ RunOnce: the scale-up decision

\* The unschedulable pods a listing may return.
UnschedulablePodLists ==
  SeqsUpTo({Workload(n, EmptyName, nom, age, FALSE) :
              n \in {"q1"},
              nom \in {EmptyName, WorkerName(1), WorkerName(MaxNodeIdx)},
              age \in {0, Second, 2 * Second, 3 * Second}},
           MaxPods)

\* core_utils.FilterOutExpendableAndSplit: the non-expendable pods without a
\* nominated node, and those with one (waiting for a preemption).
WithoutNominatedNode(pods) ==
  SelectSeq(pods, LAMBDA p : ~p.expendable /\ p.nominatedNodeName = EmptyName)
WaitingForLowerPriorityPreemption(pods) ==
  SelectSeq(pods, LAMBDA p : ~p.expendable /\ p.nominatedNodeName # EmptyName)

\* The loop adding the pods waiting for preemption to the snapshot, on their
\* nominated nodes; the first failing AddPod ends it.  calls are the AddPod
\* calls made, with 1 for a success and 0 for a failure.
AddNominatedPodsMutant(snap, pods) ==
  [err |-> FALSE,
   snap |-> [snap EXCEPT !.pods = @ \cup {<<pods[i].name, pods[i].nominatedNodeName>> :
                                            i \in 1..Len(pods)}],
   calls |-> [i \in 1..Len(pods) |-> Ev("AddPod", 1)]]

RECURSIVE AddNominatedPods(_, _)
AddNominatedPods(snap, pods) ==
  IF pods = <<>> THEN [err |-> FALSE, snap |-> snap, calls |-> <<>>]
  ELSE LET r == AddPod(snap, Head(pods).name, Head(pods).nominatedNodeName)
           rest == AddNominatedPods(r.snap, Tail(pods))
       IN IF r.err
            THEN [err |-> TRUE, snap |-> r.snap, calls |-> <<Ev("AddPod", 0)>>]
            ELSE [rest EXCEPT !.calls = <<Ev("AddPod", 1)>> \o @]

\* filterOutYoungPods: the pods whose age exceeds NewPodScaleUpDelay.
OldEnough(podAge, newPodScaleUpDelay) == podAge > newPodScaleUpDelay

filterOutYoungPods(pods, newPodScaleUpDelay) ==
  SelectSeq(pods, LAMBDA p : OldEnough(p.age, newPodScaleUpDelay))

\* core_utils.GetOldestCreateTime, as an age at currentTime.
OldestAge(pods) ==
  CHOOSE g \in {pods[i].age : i \in 1..Len(pods)} :
    \A i \in 1..Len(pods) : pods[i].age <= g

\* allPodsAreNew: oldest creation time + unschedulablePodTimeBuffer is after
\* currentTime.
allPodsAreNewMutant(pods) ==
  (currentTime - OldestAge(pods)) + unschedulablePodTimeBuffer >= currentTime

allPodsAreNew(pods) ==
  (currentTime - OldestAge(pods)) + unschedulablePodTimeBuffer > currentTime

\* From the unschedulable-pod listing to the scale-up decision.
\* PodListProcessor.Process hands back the pods it wants helped: keep tells
\* which of them.
ListUnschedulable ==
  /\ pc = "unsched"
  /\ \E listOK \in BOOLEAN, listed \in UnschedulablePodLists, keep \in BOOLEAN :
       LET lg0 == Append(log, Ev("UnschedulablePodLister.List",
                                 IF listOK THEN Len(listed) ELSE -1))
           r == AddNominatedPods(snapshot, WaitingForLowerPriorityPreemption(listed))
           lg1 == lg0 \o r.calls
           toHelp == filterOutYoungPods(
                       IF keep THEN WithoutNominatedNode(listed) ELSE <<>>,
                       opts.NewPodScaleUpDelay)
       IN IF ~listOK
            THEN Return("ApiCallError", loc, lg0) /\ UNCHANGED a
          ELSE IF r.err
            THEN Return("InternalError", loc, lg1) /\ UNCHANGED a
          ELSE /\ snapshot' = r.snap
               /\ UNCHANGED ret
               /\ IF Len(toHelp) = 0
                    THEN /\ loc' = [loc EXCEPT !.scaleUpResult = "ScaleUpNotNeeded"]
                         /\ log' = lg1
                         /\ pc' = "scaleDownGate"
                         /\ UNCHANGED a
                  ELSE IF allPodsAreNew(toHelp)
                    THEN /\ a' = [a EXCEPT !.disableScaleDownForLoop = TRUE]
                         /\ loc' = [loc EXCEPT !.scaleUpResult = "ScaleUpInCooldown"]
                         /\ log' = lg1
                         /\ pc' = "scaleDownGate"
                  ELSE /\ log' = Append(lg1, Ev("ScaleUp", 0))
                       /\ pc' = "planUp"
                       /\ UNCHANGED <<a, loc>>
  /\ UNCHANGED <<nodes, cfg, opts, input, output, provQueue, provStatus, currentTime>>

\* -------------------------------------------------------------- the planners

\* ScaleUp and TryToScaleDown: a planner ends without a request (with a
\* result, and an error or none), or issues one request, polls until the
\* provider reports a terminal status, retries once on ERROR and ends with
\* its success result or, when the retry ends in ERROR too, with an error.
PlannerLog(kind) == IF kind = "Up" THEN "ScaleUp.PerformScaleUp"
                                   ELSE "TryToScaleDown.PerformScaleDown"

PlannerSuccess(kind) == IF kind = "Up" THEN "ScaleUpSuccessful"
                                       ELSE "ScaleDownNodeDeleteStarted"

PlannerError(kind) == IF kind = "Up" THEN "ScaleUpError" ELSE "ScaleDownError"

\* The results a planner may end with when it issues no request.
PlannerNoRequest(kind) ==
  IF kind = "Up"
    THEN {<<"ScaleUpNoOptionsAvailable", "nil">>, <<"ScaleUpError", "CloudProviderError">>}
    ELSE IF a.unneededNodes = {}
      THEN {<<"ScaleDownNoUnneeded", "nil">>}
      ELSE {<<"ScaleDownNoNodeDeleted", "nil">>, <<"ScaleDownError", "CloudProviderError">>}

\* The counts a planner may ask for.
PlannerCounts(kind) ==
  IF kind = "Up" THEN 1..MaxPlannerCount
  ELSE {n \in 1..MaxPlannerCount : n <= Cardinality(a.unneededNodes)}

PlannerEnd(kind, result, err) ==
  /\ loc' = [loc EXCEPT !.tryResult = result, !.typedErr = err]
  /\ pc' = "after" \o kind

PlannerDecide(kind) ==
  /\ pc = "plan" \o kind
  /\ \E o \in PlannerNoRequest(kind) :
       /\ PlannerEnd(kind, o[1], o[2])
       /\ UNCHANGED <<provQueue, provStatus, log>>
  /\ UNCHANGED <<nodes, cfg, opts, input, output, a, snapshot, currentTime, ret>>

PlannerRequest(kind) ==
  /\ pc = "plan" \o kind
  /\ \E n \in PlannerCounts(kind) :
       /\ PerformScale(kind, n)
       /\ loc' = [loc EXCEPT !.count = n]
       /\ log' = Append(log, Ev(PlannerLog(kind), n))
       /\ pc' = "planPoll" \o kind
  /\ UNCHANGED <<nodes, cfg, opts, input, output, a, snapshot, currentTime, ret>>

PlannerPoll(kind) ==
  /\ pc = "planPoll" \o kind
  /\ provStatus # "SCALING"
  /\ IF CheckStatusCluster
       THEN /\ PlannerEnd(kind, PlannerSuccess(kind), "nil")
            /\ UNCHANGED <<provQueue, provStatus, log>>
       ELSE /\ PerformScale(kind, loc.count)
            /\ log' = Append(log, Ev(PlannerLog(kind), loc.count))
            /\ pc' = "planRetry" \o kind
            /\ UNCHANGED loc
  /\ UNCHANGED <<nodes, cfg, opts, input, output, a, snapshot, currentTime, ret>>

PlannerRetry(kind) ==
  /\ pc = "planRetry" \o kind
  /\ provStatus # "SCALING"
  /\ IF CheckStatusCluster
       THEN PlannerEnd(kind, PlannerSuccess(kind), "nil")
       ELSE PlannerEnd(kind, PlannerError(kind), "CloudProviderError")
  /\ UNCHANGED <<nodes, cfg, opts, input, output, provQueue, provStatus, a, snapshot,
                 currentTime, ret, log>>

AfterScaleUpMutant ==
  /\ pc = "afterUp"
  /\ LET l == [loc EXCEPT !.scaleUpResult = loc.tryResult,
                          !.scaleUpStatusProcessorAlreadyCalled = TRUE]
         lg == Append(log, Ev("ScaleUpStatusProcessor.Process", 0))
     IN IF loc.typedErr # "nil"
          THEN Return(loc.typedErr, l, lg) /\ UNCHANGED a
        ELSE /\ a' = IF loc.tryResult = "ScaleUpSuccessful"
                       THEN [a EXCEPT !.lastScaleUpTime = currentTime] ELSE a
             /\ loc' = [l EXCEPT !.tryResult = "none", !.count = 0]
             /\ log' = lg
             /\ pc' = "scaleDownGate"
             /\ UNCHANGED <<ret, snapshot>>
  /\ UNCHANGED <<nodes, cfg, opts, input, output, provQueue, provStatus, currentTime>>

\* After ScaleUp returned: the status processor, the error return, the
\* stamp of lastScaleUpTime.
AfterScaleUp ==
  /\ pc = "afterUp"
  /\ LET l == [loc EXCEPT !.scaleUpResult = loc.tryResult,
                          !.scaleUpStatusProcessorAlreadyCalled = TRUE]
         lg == Append(log, Ev("ScaleUpStatusProcessor.Process", 0))
     IN IF loc.typedErr # "nil"
          THEN Return(loc.typedErr, l, lg) /\ UNCHANGED a
        ELSE IF loc.tryResult = "ScaleUpSuccessful"
          THEN /\ a' = [a EXCEPT !.lastScaleUpTime = currentTime]
               /\ Return("nil", [l EXCEPT !.scaleDownResult = "ScaleDownInCooldown"], lg)
        ELSE /\ loc' = [l EXCEPT !.tryResult = "none", !.count = 0]
             /\ log' = lg
             /\ pc' = "scaleDownGate"
             /\ UNCHANGED <<a, ret, snapshot>>
  /\ UNCHANGED <<nodes, cfg, opts, input, output, provQueue, provStatus, currentTime>>


\* ---------------------------------------- RunOnce: the scale-down decision

\* t.Add(d).After(u)
AddAfterMutant(t, d, u) == t + d >= u
AddAfter(t, d, u) == t + d > u

\* scaleDownInCooldown
scaleDownInCooldown ==
  \/ a.disableScaleDownForLoop
  \/ AddAfter(a.lastScaleUpTime, ScaleDownDelayAfterAdd, currentTime)
  \/ AddAfter(a.lastScaleDownFailTime, ScaleDownDelayAfterFailure, currentTime)
  \/ AddAfter(a.lastScaleDownDeleteTime, ScaleDownDelayAfterDelete, currentTime)

\* The sets of unneeded nodes UpdateUnneededNodes may find among the workers:
\* as many as a planner may ask to remove at once.
UnneededSets(workers) ==
  {u \in SUBSET workers : Cardinality(u) <= MaxPlannerCount}

\* if a.ScaleDownEnabled { ... } up to the call of TryToScaleDown: the
\* disruption-budget listing, the candidates, UpdateUnneededNodes (which
\* leaves the set of unneeded nodes it found) and the cooldown gate.
ScaleDownGate ==
  /\ pc = "scaleDownGate"
  /\ IF ~opts.ScaleDownEnabled
       THEN Return("nil", loc, log) /\ UNCHANGED a
       ELSE \E pdbOK \in BOOLEAN, candErr \in {"nil", "InternalError"},
               updateErr \in {"nil", "InternalError"},
               unneeded \in UnneededSets(ListedWorkers(loc.allNodes)),
               deleteInProgress \in BOOLEAN :
         LET lg1 == Append(log, Ev("PodDisruptionBudgetLister.List",
                                   IF pdbOK THEN 1 ELSE 0))
             lg2 == Append(lg1, Ev("UpdateUnneededNodes",
                                   IF updateErr = "nil" THEN 1 ELSE 0))
             failed == [loc EXCEPT !.scaleDownResult = "ScaleDownError"]
         IN IF ~pdbOK THEN Return("ApiCallError", failed, lg1) /\ UNCHANGED a
            ELSE IF candErr # "nil" THEN Return(candErr, loc, lg1) /\ UNCHANGED a
            ELSE IF updateErr # "nil" THEN Return(updateErr, failed, lg2) /\ UNCHANGED a
            ELSE /\ a' = [a EXCEPT !.unneededNodes = unneeded]
                 /\ IF scaleDownInCooldown
                      THEN Return("nil", [loc EXCEPT !.scaleDownResult =
                                            "ScaleDownInCooldown"], lg2)
                    ELSE IF deleteInProgress
                      THEN Return("nil", [loc EXCEPT !.scaleDownResult =
                                            "ScaleDownInProgress"],
                                  Append(lg2, Ev("IsNonEmptyNodeDeleteInProgress", 1)))
                    ELSE /\ log' = lg2 \o <<Ev("IsNonEmptyNodeDeleteInProgress", 0),
                                            Ev("TryToScaleDown", 0)>>
                         /\ pc' = "planDown"
                         /\ UNCHANGED <<loc, ret, snapshot>>
  /\ UNCHANGED <<nodes, cfg, opts, input, output, provQueue, provStatus, currentTime>>

AfterScaleDownMutant ==
  /\ pc = "afterDown"
  /\ LET stamped == IF loc.tryResult = "ScaleDownNodeDeleteStarted"
                      THEN [a EXCEPT !.lastScaleDownDeleteTime = currentTime]
                      ELSE a
         lg1 == IF /\ loc.tryResult \in {"ScaleDownNoNodeDeleted", "ScaleDownNoUnneeded"}
                   /\ opts.MaxBulkSoftTaintCount # 0
                  THEN Append(log, Ev("SoftTaintUnneededNodes", 0)) ELSE log
         lg2 == IF opts.ScaleDownStatusProcessor
                  THEN Append(lg1, Ev("ScaleDownStatusProcessor.Process", 0)) ELSE lg1
         l == [loc EXCEPT !.scaleDownStatusProcessorAlreadyCalled =
                            opts.ScaleDownStatusProcessor]
     IN IF loc.typedErr # "nil"
          THEN /\ a' = stamped
               /\ Return(loc.typedErr, l, lg2)
          ELSE /\ a' = stamped
               /\ Return("nil", l, lg2)
  /\ UNCHANGED <<nodes, cfg, opts, input, output, provQueue, provStatus, currentTime>>

AfterScaleDownTaintMutant ==
  /\ pc = "afterDown"
  /\ LET stamped == IF loc.tryResult = "ScaleDownNodeDeleteStarted"
                      THEN [a EXCEPT !.lastScaleDownDeleteTime = currentTime]
                      ELSE a
         lg1 == IF /\ loc.tryResult \in {"ScaleDownNoNodeDeleted", "ScaleDownNoUnneeded"}
                   /\ opts.MaxBulkSoftTaintCount >= 0
                  THEN Append(log, Ev("SoftTaintUnneededNodes", 0)) ELSE log
         lg2 == IF opts.ScaleDownStatusProcessor
                  THEN Append(lg1, Ev("ScaleDownStatusProcessor.Process", 0)) ELSE lg1
         l == [loc EXCEPT !.scaleDownStatusProcessorAlreadyCalled =
                            opts.ScaleDownStatusProcessor]
     IN IF loc.typedErr # "nil"
          THEN /\ a' = [stamped EXCEPT !.lastScaleDownFailTime = currentTime]
               /\ Return(loc.typedErr, l, lg2)
          ELSE /\ a' = stamped
               /\ Return("nil", l, lg2)
  /\ UNCHANGED <<nodes, cfg, opts, input, output, provQueue, provStatus, currentTime>>

\* After TryToScaleDown returned (its status is a variable of the inner
\* block): the stamps, the soft taints, the status processor, the error
\* return.
AfterScaleDown ==
  /\ pc = "afterDown"
  /\ LET stamped == IF loc.tryResult = "ScaleDownNodeDeleteStarted"
                      THEN [a EXCEPT !.lastScaleDownDeleteTime = currentTime]
                      ELSE a
         lg1 == IF /\ loc.tryResult \in {"ScaleDownNoNodeDeleted", "ScaleDownNoUnneeded"}
                   /\ opts.MaxBulkSoftTaintCount # 0
                  THEN Append(log, Ev("SoftTaintUnneededNodes", 0)) ELSE log
         lg2 == IF opts.ScaleDownStatusProcessor
                  THEN Append(lg1, Ev("ScaleDownStatusProcessor.Process", 0)) ELSE lg1
         l == [loc EXCEPT !.scaleDownStatusProcessorAlreadyCalled =
                            opts.ScaleDownStatusProcessor]
     IN IF loc.typedErr # "nil"
          THEN /\ a' = [stamped EXCEPT !.lastScaleDownFailTime = currentTime]
               /\ Return(loc.typedErr, l, lg2)
          ELSE /\ a' = stamped
               /\ Return("nil", l, lg2)
  /\ UNCHANGED <<nodes, cfg, opts, input, output, provQueue, provStatus, currentTime>>

Next ==
  \/ RunOnceStart
  \/ CompareMin
  \/ BoundsScaleUp
  \/ PollStatus("Up") \/ PollErrorStatus("Up") \/ PollRetry("Up")
  \/ CompareMax
  \/ BoundsScaleDown
  \/ PollStatus("Down") \/ PollErrorStatus("Down") \/ PollRetry("Down")
  \/ Relist
  \/ ListAndSnapshot
  \/ HealthCheck
  \/ ListUnschedulable
  \/ PlannerDecide("Up") \/ PlannerRequest("Up")
  \/ PlannerPoll("Up") \/ PlannerRetry("Up")
  \/ AfterScaleUp
  \/ ScaleDownGate
  \/ PlannerDecide("Down") \/ PlannerRequest("Down")
  \/ PlannerPoll("Down") \/ PlannerRetry("Down")
  \/ AfterScaleDown
  \/ ProviderSucceed
  \/ ProviderFail

Spec == Init /\ [][Next]_vars

\* The control task runs RunOnce to its end and starts the next iteration:
\* the code of an iteration is sequential and nothing suspends it but its
\* own sleeps.  The provider reaches a terminal status, SUCCEEDED or ERROR,
\* for every request it holds.
ProviderResponds == ProviderSucceed \/ ProviderFail
SpecFair == Spec /\ WF_vars(Next) /\ WF_vars(ProviderResponds)

\* ------------------------------------- the removability predicate on its own

\* The arguments of a call: the pods of the cluster, in the order of the
\* listing, and the name of the node to remove (the empty name when no worker
\* carries the suffix looked for).
InitPredicate ==
  /\ input \in
      {[pods |-> ps, workerNodeName |-> t] :
         ps \in SeqsUpTo(PodsOn({WorkerName(MaxNodeIdx), EmptyName}), MaxPods),
         t \in {WorkerName(MaxNodeIdx), EmptyName}}
  /\ output = "none"
  /\ nodes = {}
  /\ cfg = ConfigMap(<<"1">>, <<"2">>)
  /\ opts = Options(TRUE, TRUE, 10, TRUE, 0)
  /\ provQueue = <<>>
  /\ provStatus = "SUCCEEDED"
  /\ a = NewStaticAutoscaler
  /\ snapshot = SnapshotClear
  /\ pc = "idle"
  /\ currentTime = StartTime
  /\ loc = InitLoc
  /\ ret = "none"
  /\ log = <<>>

\* canBeRemove := checkWorkerNodeCanBeRemove(kubeclient, workerNameToRemove)
CallPredicate ==
  /\ output = "none"
  /\ LET r == checkWorkerNodeCanBeRemove(input.pods, ReplicaSets, input.workerNodeName)
     IN output' = IF r.panic THEN "panic"
                  ELSE IF r.canBeRemove THEN "true" ELSE "false"
  /\ UNCHANGED <<nodes, cfg, opts, provQueue, provStatus, a, snapshot, pc,
                 currentTime, loc, ret, log, input>>

SpecPredicate == InitPredicate /\ [][CallPredicate]_vars

\* ------------------------------------------- the remote expander on its own

\* The longest option list handed to the expander and the longest response of
\* the server.
MaxOptions == 3
MaxResponse == 2

\* Node-group ids of the options, and an id no option carries.
NodeGroupIds == {<<"group", i>> : i \in 1..MaxOptions}
UnknownId == <<"group", 0>>

\* expander.Option, as far as the filter reads it.
Option(id, count) == [nodeGroupId |-> id, nodeCount |-> count]

\* *protos.Option: a pointer, nil or to a message.
NilOption == [isNil |-> TRUE, nodeGroupId |-> UnknownId, nodeCount |-> 0]
newOptionMessage(nodeGroupId, nodeCount) ==
  [isNil |-> FALSE, nodeGroupId |-> nodeGroupId, nodeCount |-> nodeCount]

\* populateOptionsForGRPC: the messages of the request, and the map from
\* node-group id to option; a later option of the same id replaces an earlier.
RECURSIVE OptionMapLoop(_, _, _)
OptionMapLoop(expansionOptions, i, m) ==
  IF i > Len(expansionOptions) THEN m
  ELSE LET option == expansionOptions[i]
       IN OptionMapLoop(expansionOptions, i + 1,
            [id \in DOMAIN m \cup {option.nodeGroupId} |->
               IF id = option.nodeGroupId THEN option ELSE m[id]])

populateOptionsForGRPC(expansionOptions) ==
  [grpcOptionsSlice |->
     [i \in 1..Len(expansionOptions) |->
        newOptionMessage(expansionOptions[i].nodeGroupId, expansionOptions[i].nodeCount)],
   nodeGroupIDOptionMap |-> OptionMapLoop(expansionOptions, 1, <<>>)]

\* The loop of transformAndSanitizeOptionsFromGRPC from entry i on.  A nil
\* slice and an empty one are the same sequence here: the code tells them
\* apart only by "options == nil", which is Len = 0 of what the loop appended.
RECURSIVE TransformLoop(_, _, _, _)
TransformLoop(bestOptionsResponseOptions, nodeGroupIDOptionMap, i, options) ==
  IF i > Len(bestOptionsResponseOptions) THEN options
  ELSE LET option == bestOptionsResponseOptions[i]
       IN IF option.isNil
          THEN TransformLoop(bestOptionsResponseOptions, nodeGroupIDOptionMap, i + 1, options)
          ELSE IF option.nodeGroupId \in DOMAIN nodeGroupIDOptionMap
          THEN TransformLoop(bestOptionsResponseOptions, nodeGroupIDOptionMap, i + 1,
                 Append(options, nodeGroupIDOptionMap[option.nodeGroupId]))
          ELSE TransformLoop(bestOptionsResponseOptions, nodeGroupIDOptionMap, i + 1, options)

transformAndSanitizeOptionsFromGRPCMutant(bestOptionsResponseOptions, nodeGroupIDOptionMap) ==
  LET kept == TransformLoop(bestOptionsResponseOptions, nodeGroupIDOptionMap, 1, <<>>)
  IN [k \in 1..Len(kept) |-> kept[Len(kept) + 1 - k]]

transformAndSanitizeOptionsFromGRPC(bestOptionsResponseOptions, nodeGroupIDOptionMap) ==
  TransformLoop(bestOptionsResponseOptions, nodeGroupIDOptionMap, 1, <<>>)

\* What g.grpcClient.BestOptions gives back: an error (the 5 s deadline or
\* the transport), a nil response, a response whose Options is nil, or a
\* response with a list of messages.
Reply(err, responseNil, optionsNil, options) ==
  [err |-> err, responseNil |-> responseNil, optionsNil |-> optionsNil,
   options |-> options]

BestOptionsNoFallbackMutant(grpcClientNil, expansionOptions, reply) ==
  IF grpcClientNil THEN expansionOptions
  ELSE LET p == populateOptionsForGRPC(expansionOptions)
       IN IF reply.err THEN expansionOptions
          ELSE IF reply.responseNil \/ reply.optionsNil THEN expansionOptions
          ELSE transformAndSanitizeOptionsFromGRPC(reply.options,
                                                   p.nodeGroupIDOptionMap)

BestOptionsMutant(grpcClientNil, expansionOptions, reply) ==
  IF grpcClientNil THEN expansionOptions
  ELSE LET p == populateOptionsForGRPC(expansionOptions)
       IN transformAndSanitizeOptionsFromGRPC(reply.options, p.nodeGroupIDOptionMap)

\* grpcclientstrategy.BestOptions; grpcClientNil is g.grpcClient == nil.
BestOptions(grpcClientNil, expansionOptions, reply) ==
  IF grpcClientNil THEN expansionOptions
  ELSE LET p == populateOptionsForGRPC(expansionOptions)
       IN IF reply.err THEN expansionOptions
          ELSE IF reply.responseNil \/ reply.optionsNil THEN expansionOptions
          ELSE LET options == transformAndSanitizeOptionsFromGRPC(
                                reply.options, p.nodeGroupIDOptionMap)
               IN IF options = <<>> THEN expansionOptions ELSE options

\* Option lists of distinct node groups, one option a group, in any order.
OptionLists ==
  {s \in SeqsUpTo({Option(id, id[2] + 1) : id \in NodeGroupIds}, MaxOptions) :
     \A i, j \in 1..Len(s) : i # j => s[i].nodeGroupId # s[j].nodeGroupId}

\* Replies of the server: the messages may be nil, name an option's group or
\* name no group of the request, and carry a count of their own.
ResponseEntries ==
  {NilOption} \cup {newOptionMessage(id, 0) : id \in NodeGroupIds \cup {UnknownId}}

Replies ==
  {Reply(TRUE, TRUE, TRUE, <<>>), Reply(FALSE, TRUE, TRUE, <<>>),
   Reply(FALSE, FALSE, TRUE, <<>>)}
    \cup {Reply(FALSE, FALSE, FALSE, r) : r \in SeqsUpTo(ResponseEntries, MaxResponse)}
    \cup {Reply(TRUE, FALSE, FALSE, r) : r \in SeqsUpTo(ResponseEntries, 1)}

InitExpander ==
  /\ input \in
      {[grpcClientNil |-> c, expansionOptions |-> o, reply |-> r] :
         c \in BOOLEAN, o \in OptionLists, r \in Replies}
  /\ output = <<>>
  /\ nodes = {}
  /\ cfg = ConfigMap(<<"1">>, <<"2">>)
  /\ opts = Options(TRUE, TRUE, 10, TRUE, 0)
  /\ provQueue = <<>>
  /\ provStatus = "SUCCEEDED"
  /\ a = NewStaticAutoscaler
  /\ snapshot = SnapshotClear
  /\ pc = "idle"
  /\ currentTime = StartTime
  /\ loc = InitLoc
  /\ ret = "none"
  /\ log = <<>>

\* options := filter.BestOptions(expansionOptions, nodeInfo)
CallBestOptions ==
  /\ pc = "idle"
  /\ output' = BestOptions(input.grpcClientNil, input.expansionOptions, input.reply)
  /\ pc' = "returned"
  /\ UNCHANGED <<nodes, cfg, opts, provQueue, provStatus, a, snapshot,
                 currentTime, loc, ret, log, input>>

SpecExpander == InitExpander /\ [][CallBestOptions]_vars

\* --------------------------------- the scale-up status processor on its own

\* The longest event listing of a pod.
MaxEvents == 2

\* Strings are sequences of characters.
Insufficient == <<"I", "n", "s", "u", "f", "f", "i", "c", "i", "e", "n", "t">>

\* strings.Contains(s, substr)
Contains(s, substr) ==
  \E k \in 0..(Len(s) - Len(substr)) :
    \A j \in 1..Len(substr) : s[k + j] = substr[j]

\* Event messages: the scheduler's reason with and without a prefix, one
\* that differs in case only, and an empty one.
Messages ==
  {Insufficient \o <<" ", "c", "p", "u">>,
   <<"0", "/", "1", " ">> \o Insufficient,
   <<"i">> \o Tail(Insufficient),
   <<>>}

\* What Events(namespace).List gives back for a pod: an error with a list
\* of no items, or the items.
EventList(err, items) == [err |-> err, items |-> items]

EventLists ==
  {EventList(TRUE, <<>>)}
    \cup {EventList(FALSE, ms) : ms \in SeqsUpTo(Messages, MaxEvents)}

\* context.Recorder.Event(pod.Pod, EventTypeNormal, reason, ...)
RecorderEvent(pod, reason) == [pod |-> pod, reason |-> reason]

ReasonFor(message) ==
  IF Contains(message, Insufficient) = FALSE THEN "NotTriggerScaleUp"
  ELSE "TriggerScaleUp"

\* The loop of Process from pod i on: podsRemainUnschedulable[i] is the event
\* listing of the i-th pod.  The error of the listing is dropped and
\* events.Items[0] is read whatever the length: with no item the index is out
\* of range and the process panics, the events recorded so far staying.
RECURSIVE ProcessLoop(_, _, _)
ProcessLoop(podsRemainUnschedulable, i, recorded) ==
  IF i > Len(podsRemainUnschedulable) THEN [panic |-> FALSE, events |-> recorded]
  ELSE LET events == podsRemainUnschedulable[i]
       IN IF Len(events.items) = 0 THEN [panic |-> TRUE, events |-> recorded]
          ELSE ProcessLoop(podsRemainUnschedulable, i + 1,
                 Append(recorded, RecorderEvent(i, ReasonFor(events.items[1]))))

\* EventingScaleUpStatusProcessor.Process
Process(podsRemainUnschedulable) == ProcessLoop(podsRemainUnschedulable, 1, <<>>)

InitEventing ==
  /\ input \in SeqsUpTo(EventLists, MaxPods)
  /\ output = [panic |-> FALSE, events |-> <<>>]
  /\ nodes = {}
  /\ cfg = ConfigMap(<<"1">>, <<"2">>)
  /\ opts = Options(TRUE, TRUE, 10, TRUE, 0)
  /\ provQueue = <<>>
  /\ provStatus = "SUCCEEDED"
  /\ a = NewStaticAutoscaler
  /\ snapshot = SnapshotClear
  /\ pc = "idle"
  /\ currentTime = StartTime
  /\ loc = InitLoc
  /\ ret = "none"
  /\ log = <<>>

\* A call of Process: it returns, or the process exits on the panic.
CallProcess ==
  /\ pc = "idle"
  /\ output' = Process(input)
  /\ pc' = IF output'.panic THEN "exited" ELSE "returned"
  /\ UNCHANGED <<nodes, cfg, opts, provQueue, provStatus, a, snapshot,
                 currentTime, loc, ret, log, input>>

SpecEventing == InitEventing /\ [][CallProcess]_vars

\* -------------------------------------------------- the age filter on its own

\* The pods handed to the filter, by name and age at currentTime, and the
\* configured NewPodScaleUpDelay.
InitAgeFilter ==
  /\ input \in
      {[allUnschedulablePods |-> ps, newPodScaleUpDelay |-> d] :
         ps \in SeqsUpTo({[name |-> n, age |-> g] :
                            n \in {"p1", "p2"},
                            g \in {0, Second, 2 * Second, 3 * Second}}, MaxPods),
         d \in {0, Second, 2 * Second}}
  /\ output = <<>>
  /\ nodes = {}
  /\ cfg = ConfigMap(<<"1">>, <<"2">>)
  /\ opts = Options(TRUE, TRUE, 10, TRUE, 0)
  /\ provQueue = <<>>
  /\ provStatus = "SUCCEEDED"
  /\ a = NewStaticAutoscaler
  /\ snapshot = SnapshotClear
  /\ pc = "idle"
  /\ currentTime = StartTime
  /\ loc = InitLoc
  /\ ret = "none"
  /\ log = <<>>

\* unschedulablePodsToHelp = a.filterOutYoungPods(unschedulablePodsToHelp, currentTime)
CallFilterOutYoungPods ==
  /\ pc = "idle"
  /\ output' = filterOutYoungPods(input.allUnschedulablePods, input.newPodScaleUpDelay)
  /\ pc' = "returned"
  /\ UNCHANGED <<nodes, cfg, opts, provQueue, provStatus, a, snapshot,
                 currentTime, loc, ret, log, input>>

SpecAgeFilter == InitAgeFilter /\ [][CallFilterOutYoungPods]_vars

\* ------------------------------------------ the scale-up decision on its own

\* The pods PodListProcessor.Process handed back, by name and age at
\* currentTime, and the configured NewPodScaleUpDelay.
InitDecision ==
  /\ input \in
      {[unschedulablePodsToHelp |-> ps, newPodScaleUpDelay |-> d] :
         ps \in SeqsUpTo({[name |-> n, age |-> g] :
                            n \in {"p1", "p2"},
                            g \in {0, Second \div 2, Second, 2 * Second, 3 * Second}},
                         MaxPods),
         d \in {0, Second}}
  /\ output = [unschedulablePodsToHelp |-> <<>>, result |-> "none",
               disableScaleDownForLoop |-> FALSE, ScaleUp |-> FALSE]
  /\ nodes = {}
  /\ cfg = ConfigMap(<<"1">>, <<"2">>)
  /\ opts = Options(TRUE, TRUE, 10, TRUE, 0)
  /\ provQueue = <<>>
  /\ provStatus = "SUCCEEDED"
  /\ a = NewStaticAutoscaler
  /\ snapshot = SnapshotClear
  /\ pc = "idle"
  /\ currentTime = StartTime
  /\ loc = InitLoc
  /\ ret = "none"
  /\ log = <<>>

\* RunOnce from the age filter to the call of ScaleUp: what is left of the
\* pods, the result set without the planner, whether scale-down was disabled
\* for the loop and whether ScaleUp is called.
ScaleUpDecision ==
  /\ pc = "idle"
  /\ LET toHelp == filterOutYoungPods(input.unschedulablePodsToHelp,
                                      input.newPodScaleUpDelay)
     IN output' =
          IF Len(toHelp) = 0
            THEN [unschedulablePodsToHelp |-> toHelp, result |-> "ScaleUpNotNeeded",
                  disableScaleDownForLoop |-> FALSE, ScaleUp |-> FALSE]
          ELSE IF allPodsAreNew(toHelp)
            THEN [unschedulablePodsToHelp |-> toHelp, result |-> "ScaleUpInCooldown",
                  disableScaleDownForLoop |-> TRUE, ScaleUp |-> FALSE]
          ELSE [unschedulablePodsToHelp |-> toHelp, result |-> "none",
                disableScaleDownForLoop |-> FALSE, ScaleUp |-> TRUE]
  /\ pc' = "returned"
  /\ UNCHANGED <<nodes, cfg, opts, provQueue, provStatus, a, snapshot,
                 currentTime, loc, ret, log, input>>

SpecDecision == InitDecision /\ [][ScaleUpDecision]_vars

\* ------------------------------------ the processor callbacks on their own

\* The calls made on the callbacks object in one run, the keys and the values
\* the processors store.
MaxCallbackCalls == 5
ExtraKeys == {1, 2}

\* staticAutoscalerProcessorCallbacks: extraValues is a map, here a function
\* on the keys that are set.
Callbacks(disable, extra) ==
  [disableScaleDownForLoop |-> disable, extraValues |-> extra]

EmptyMap == [k \in {} |-> 0]

\* callbacks.reset()
resetMutant(callbacks) == Callbacks(FALSE, callbacks.extraValues)
reset(callbacks) == Callbacks(FALSE, EmptyMap)

\* newStaticAutoscalerProcessorCallbacks()
newStaticAutoscalerProcessorCallbacks == reset(Callbacks(FALSE, EmptyMap))

\* callbacks.DisableScaleDownForLoop()
DisableScaleDownForLoop(callbacks) ==
  [callbacks EXCEPT !.disableScaleDownForLoop = TRUE]

\* callbacks.SetExtraValue(key, value)
SetExtraValue(callbacks, key, value) ==
  [callbacks EXCEPT !.extraValues =
     [k \in DOMAIN callbacks.extraValues \cup {key} |->
        IF k = key THEN value ELSE callbacks.extraValues[k]]]

\* callbacks.GetExtraValue(key): the zero value and found = false for a key
\* that is not set.
GetExtraValue(callbacks, key) ==
  IF key \in DOMAIN callbacks.extraValues
    THEN [key |-> key, value |-> callbacks.extraValues[key], found |-> TRUE]
    ELSE [key |-> key, value |-> 0, found |-> FALSE]


\* output is a.processorCallbacks, log the calls made on it since
\* construction, input what the last GetExtraValue returned.
InitCallbacks ==
  /\ output = newStaticAutoscalerProcessorCallbacks
  /\ input = [key |-> 0, value |-> 0, found |-> FALSE]
  /\ log = <<>>
  /\ nodes = {}
  /\ cfg = ConfigMap(<<"1">>, <<"2">>)
  /\ opts = Options(TRUE, TRUE, 10, TRUE, 0)
  /\ provQueue = <<>>
  /\ provStatus = "SUCCEEDED"
  /\ a = NewStaticAutoscaler
  /\ snapshot = SnapshotClear
  /\ pc = "idle"
  /\ currentTime = StartTime
  /\ loc = InitLoc
  /\ ret = "none"

\* The entry of RunOnce: a.cleanUpIfRequired(); a.processorCallbacks.reset().
\* A call of RunOnce begins when the one before has returned, wherever that
\* was.
CallbacksRunOnce ==
  /\ Len(log) < MaxCallbackCalls
  /\ output' = reset(output)
  /\ a' = [a EXCEPT !.initialized = TRUE]
  /\ log' = Append(log, Ev("reset", 0))
  /\ pc' = "running"
  /\ UNCHANGED <<nodes, cfg, opts, provQueue, provStatus, snapshot,
                 currentTime, loc, ret, input>>

\* a.processorCallbacks.DisableScaleDownForLoop(), when the pods are all new.
CallDisableScaleDownForLoop ==
  /\ pc = "running"
  /\ Len(log) < MaxCallbackCalls
  /\ output' = DisableScaleDownForLoop(output)
  /\ log' = Append(log, Ev("DisableScaleDownForLoop", 0))
  /\ UNCHANGED <<nodes, cfg, opts, provQueue, provStatus, a, snapshot,
                 currentTime, loc, ret, input, pc>>

\* A processor stores a value during the iteration.
CallSetExtraValue ==
  /\ pc = "running"
  /\ Len(log) < MaxCallbackCalls
  /\ \E key \in ExtraKeys, value \in {1, 2} :
       /\ output' = SetExtraValue(output, key, value)
       /\ log' = Append(log, Ev("SetExtraValue", key))
  /\ UNCHANGED <<nodes, cfg, opts, provQueue, provStatus, a, snapshot,
                 currentTime, loc, ret, input, pc>>

\* A processor reads a value during the iteration.
CallGetExtraValue ==
  /\ pc = "running"
  /\ Len(log) < MaxCallbackCalls
  /\ \E key \in ExtraKeys :
       /\ input' = GetExtraValue(output, key)
       /\ log' = Append(log, Ev("GetExtraValue", key))
  /\ UNCHANGED <<nodes, cfg, opts, provQueue, provStatus, a, snapshot,
                 currentTime, loc, ret, output, pc>>

NextCallbacks ==
  \/ CallbacksRunOnce
  \/ CallDisableScaleDownForLoop
  \/ CallSetExtraValue
  \/ CallGetExtraValue

SpecCallbacks == InitCallbacks /\ [][NextCallbacks]_vars

\* ------------------------- the bounds block beside a changing configmap

\* The configmap lives in the cluster: an administrator may replace it at
\* any moment, also between two reads of one iteration.  Each call of
\* GetMinSizeNodeGroup / GetMaxSizeNodeGroup fetches it anew.
ConfigMapUpdate ==
  /\ \E cm \in ConfigMaps : cm # cfg /\ cfg' = cm
  /\ UNCHANGED <<nodes, opts, provQueue, provStatus, a, snapshot, pc,
                 currentTime, loc, ret, log, input, output>>

\* RunOnce through its bounds block, up to the first request or the return.
NextBounds ==
  \/ RunOnceStart
  \/ CompareMin
  \/ BoundsScaleUp
  \/ CompareMax
  \/ BoundsScaleDown
  \/ ConfigMapUpdate

SpecBounds == Init /\ [][NextBounds]_vars

\* ------------------------------- the over-maximum branch of the bounds block

\* The worker names RunOnce collected and the pods the removability predicate
\* lists: hosted on a worker, or on no node yet (the empty node name).
\* What the branch did: the candidate, the predicate's answer and the count
\* PerformScaleDown was called with (requested = FALSE: no call).
BranchOutcome(over, name, can, requested, n) ==
  [under |-> FALSE, over |-> over, workerNameToRemove |-> name,
   canBeRemove |-> can, requested |-> requested, count |-> n]

NoOutcome == BranchOutcome(FALSE, EmptyName, "none", FALSE, 0)

\* numberWorkerNode < GetMinSizeNodeGroup: the scale-up branch is taken and
\* the maximum is not read.
UnderOutcome == [NoOutcome EXCEPT !.under = TRUE]

\* The configmaps of the branch: also one without the minimum key.
BranchConfigMaps == ConfigMaps \cup {ConfigMap(NoKey, <<"1">>)}

InitOverMax ==
  /\ input \in
      {[workerNodeNameList |-> ws, pods |-> ps] :
         ws \in SUBSET WorkerNames,
         ps \in SeqsUpTo(PodsOn(WorkerNames \cup {EmptyName}), MaxPods)}
  /\ cfg \in BranchConfigMaps
  /\ output = NoOutcome
  /\ nodes = {}
  /\ opts = Options(TRUE, TRUE, 10, TRUE, 0)
  /\ provQueue = <<>>
  /\ provStatus = "SUCCEEDED"
  /\ a = NewStaticAutoscaler
  /\ snapshot = SnapshotClear
  /\ pc = "idle"
  /\ currentTime = StartTime
  /\ loc = InitLoc
  /\ ret = "none"
  /\ log = <<>>

OverMaxBranchMutant ==
  /\ pc = "idle"
  /\ LET W == Cardinality(input.workerNodeNameList)
         mn == GetMinSizeNodeGroup(cfg)
         r == GetMaxSizeNodeGroup(cfg)
         name == WorkerNameToRemove(input.workerNodeNameList)
         can == checkWorkerNodeCanBeRemove(input.pods, ReplicaSets, name)
     IN \E podsOK \in BOOLEAN :
          /\ output' =
               IF mn.fatal THEN BranchOutcome(FALSE, EmptyName, "fatal", FALSE, 0)
               ELSE IF LessThanMin(W, mn.value) THEN UnderOutcome
               ELSE IF r.fatal THEN BranchOutcome(FALSE, EmptyName, "fatal", FALSE, 0)
               ELSE IF ~GreaterThanMax(W, r.value) THEN NoOutcome
               ELSE IF ~podsOK THEN BranchOutcome(TRUE, name, "fatal", FALSE, 0)
               ELSE IF can.panic THEN BranchOutcome(TRUE, name, "panic", FALSE, 0)
               ELSE IF ~can.canBeRemove
                 THEN BranchOutcome(TRUE, name, "false", TRUE, W - r.value)
               ELSE BranchOutcome(TRUE, name, "true", TRUE, W - r.value)
          /\ pc' = IF mn.fatal THEN "exited"
                   ELSE IF LessThanMin(W, mn.value) THEN "returned"
                   ELSE IF r.fatal \/ (GreaterThanMax(W, r.value) /\ (~podsOK \/ can.panic))
                     THEN "exited" ELSE "returned"
  /\ UNCHANGED <<nodes, cfg, opts, provQueue, provStatus, a, snapshot,
                 currentTime, loc, ret, log, input>>

\* if numberWorkerNode < GetMinSizeNodeGroup(kubeclient) { ... }
\* else if numberWorkerNode > GetMaxSizeNodeGroup(kubeclient) { ... } up to
\* the first PerformScaleDown: the candidate by suffix, the count from a
\* second read of the bound, the predicate for the candidate, the request.
OverMaxBranch ==
  /\ pc = "idle"
  /\ LET W == Cardinality(input.workerNodeNameList)
         mn == GetMinSizeNodeGroup(cfg)
         r == GetMaxSizeNodeGroup(cfg)
         name == WorkerNameToRemove(input.workerNodeNameList)
         can == checkWorkerNodeCanBeRemove(input.pods, ReplicaSets, name)
     IN \E podsOK \in BOOLEAN :
          /\ output' =
               IF mn.fatal THEN BranchOutcome(FALSE, EmptyName, "fatal", FALSE, 0)
               ELSE IF LessThanMin(W, mn.value) THEN UnderOutcome
               ELSE IF r.fatal THEN BranchOutcome(FALSE, EmptyName, "fatal", FALSE, 0)
               ELSE IF ~GreaterThanMax(W, r.value) THEN NoOutcome
               ELSE IF ~podsOK THEN BranchOutcome(TRUE, name, "fatal", FALSE, 0)
               ELSE IF can.panic THEN BranchOutcome(TRUE, name, "panic", FALSE, 0)
               ELSE IF ~can.canBeRemove
                 THEN BranchOutcome(TRUE, name, "false", FALSE, 0)
               ELSE BranchOutcome(TRUE, name, "true", TRUE, W - r.value)
          /\ pc' = IF mn.fatal THEN "exited"
                   ELSE IF LessThanMin(W, mn.value) THEN "returned"
                   ELSE IF r.fatal \/ (GreaterThanMax(W, r.value) /\ (~podsOK \/ can.panic))
                     THEN "exited" ELSE "returned"
  /\ UNCHANGED <<nodes, cfg, opts, provQueue, provStatus, a, snapshot,
                 currentTime, loc, ret, log, input>>

SpecOverMax == InitOverMax /\ [][OverMaxBranch]_vars

\* ------------------------------------------ the life of the autoscaler

\* The calls the control task makes on one autoscaler in a run.
MaxLifecycleCalls == 5

\* What lives outside the iterations: the background task of the cluster
\* state registry, the status configmap in the cluster, and whether the
\* processors and the debugging snapshotter were cleaned up.
Lifecycle(running, statusConfigMap, cleanedUp) ==
  [registryRunning |-> running, statusConfigMap |-> statusConfigMap,
   cleanedUp |-> cleanedUp]

\* output is that state, log the calls made, pc where the control task is.
InitLifecycle ==
  /\ opts \in OptionSets
  /\ output \in {Lifecycle(FALSE, FALSE, FALSE), Lifecycle(FALSE, TRUE, FALSE)}
  /\ pc = "created"
  /\ log = <<>>
  /\ input = <<>>
  /\ nodes = {}
  /\ cfg = ConfigMap(<<"1">>, <<"2">>)
  /\ provQueue = <<>>
  /\ provStatus = "SUCCEEDED"
  /\ a = NewStaticAutoscaler
  /\ snapshot = SnapshotClear
  /\ currentTime = StartTime
  /\ loc = InitLoc
  /\ ret = "none"

\* Start: a.clusterStateRegistry.Start()
Start ==
  /\ pc = "created"
  /\ Len(log) < MaxLifecycleCalls
  /\ output' = [output EXCEPT !.registryRunning = TRUE]
  /\ log' = Append(log, Ev("clusterStateRegistry.Start", 0))
  /\ pc' = "started"
  /\ UNCHANGED <<nodes, cfg, opts, provQueue, provStatus, a, snapshot,
                 currentTime, loc, ret, input>>

\* One RunOnce as the world outside sees it: the deferred function writes
\* the status configmap when the iteration got as far as registering it and
\* status writing is enabled.
LifecycleRunOnce ==
  /\ pc = "started"
  /\ Len(log) < MaxLifecycleCalls
  /\ \E deferReg \in BOOLEAN :
       LET written == deferReg /\ opts.WriteStatusConfigMap IN
       /\ output' = [output EXCEPT !.statusConfigMap = @ \/ written]
       /\ log' = Append(log, Ev("RunOnce", IF written THEN 1 ELSE 0))
  /\ a' = [a EXCEPT !.initialized = TRUE]
  /\ UNCHANGED <<nodes, cfg, opts, provQueue, provStatus, snapshot, pc,
                 currentTime, loc, ret, input>>

\* ExitCleanUp: the clean-ups, then the return when the status is not
\* written; else the status configmap is deleted and the registry stopped.
ExitCleanUp ==
  /\ pc \in {"created", "started"}
  /\ IF ~opts.WriteStatusConfigMap
       THEN /\ output' = [output EXCEPT !.cleanedUp = TRUE]
            /\ log' = Append(log, Ev("processors.CleanUp", 0))
       ELSE /\ output' = Lifecycle(FALSE, FALSE, TRUE)
            /\ log' = log \o <<Ev("processors.CleanUp", 0),
                               Ev("DeleteStatusConfigMap", 0),
                               Ev("clusterStateRegistry.Stop", 0)>>
  /\ pc' = "exited"
  /\ UNCHANGED <<nodes, cfg, opts, provQueue, provStatus, a, snapshot,
                 currentTime, loc, ret, input>>

NextLifecycle ==
  \/ Start
  \/ LifecycleRunOnce
  \/ ExitCleanUp

SpecLifecycle == InitLifecycle /\ [][NextLifecycle]_vars

\* ---------------------------------- bounds enforcement from call to call

\* What an iteration's bounds block did, as the iteration's log has it.
BoundsRecord ==
  [listed |-> \A i \in 1..Len(log) : log[i] # Ev("obtainNodeLists", -1),
   up |-> Logged("PerformScaleUp"),
   down |-> Logged("PerformScaleDown")]

\* output is the list of these records, one for each iteration that got
\* past its bounds block.
InitConverge ==
  /\ nodes \in SUBSET (1..MaxNodeIdx)
  /\ cfg \in ConfigMaps
  /\ opts \in OptionSets
  /\ provQueue = <<>>
  /\ provStatus = "SUCCEEDED"
  /\ a = NewStaticAutoscaler
  /\ snapshot = SnapshotClear
  /\ pc = "idle"
  /\ currentTime = StartTime
  /\ loc = InitLoc
  /\ ret = "none"
  /\ log = <<>>
  /\ input = <<>>
  /\ output = <<>>

\* The rest of RunOnce when there is nothing more to do: every listing
\* succeeds, no pod is unschedulable and scale-down is not enabled, so no
\* planner is called and RunOnce returns nil.
EndIteration ==
  /\ pc = "relist"
  /\ Return("nil", loc, log)
  /\ output' = Append(output, BoundsRecord)
  /\ UNCHANGED <<nodes, cfg, opts, provQueue, provStatus, a, currentTime, input>>

\* The provider carries out every request: ProviderSucceed is its only step.
NextConverge ==
  \/ RunOnceStart
  \/ CompareMin
  \/ BoundsScaleUp
  \/ PollStatus("Up") \/ PollErrorStatus("Up")
  \/ CompareMax
  \/ BoundsScaleDown
  \/ PollStatus("Down") \/ PollErrorStatus("Down")
  \/ EndIteration
  \/ ProviderSucceed

SpecConverge == InitConverge /\ [][NextConverge]_vars

\* ------------------------------------------------ PodSpecSemanticallyEqual

\* The volumes of a pod spec, the mounts of a container, the containers.
MaxVolumes == 2
MaxMounts == 2
MaxContainers == 1

VolumeNames == {"v1", "v2"}

\* apiv1.PodSpec: Volumes (the name of each and whether Projected is set) and
\* Containers (the names of the VolumeMounts of each) are slices; a PodSpec
\* passed by value shares the arrays behind them with the caller's.
PodSpec(volumes, containers) == [volumes |-> volumes, containers |-> containers]

PodSpecs ==
  {PodSpec(vs, cs) :
     vs \in {v \in SeqsUpTo({[name |-> n, projected |-> pr] :
                               n \in VolumeNames, pr \in BOOLEAN}, MaxVolumes) :
               \A i, j \in 1..Len(v) : i # j => v[i].name # v[j].name},
     cs \in SeqsUpTo({[volumeMounts |-> ms] : ms \in SeqsUpTo(VolumeNames, MaxMounts)},
                     MaxContainers)}

\* sanitizeProjectedVolumesAndMounts: what it returns, and what the caller's
\* pod spec is afterwards.  podSpec.Volumes = volumes assigns to the callee's
\* copy; podSpec.Containers[i].VolumeMounts = volumeMounts assigns to element
\* i of the array the caller's Containers slice points to as well.
sanitizeProjectedVolumesAndMounts(podSpec) ==
  LET projectedVolumeNames ==
        {podSpec.volumes[i].name :
           i \in {k \in 1..Len(podSpec.volumes) : podSpec.volumes[k].projected}}
      volumes == SelectSeq(podSpec.volumes, LAMBDA v : ~v.projected)
      volumeMounts(i) ==
        SelectSeq(podSpec.containers[i].volumeMounts,
                  LAMBDA mount : mount \notin projectedVolumeNames)
      containers == [i \in 1..Len(podSpec.containers) |->
                       [volumeMounts |-> volumeMounts(i)]]
  IN [returned |-> PodSpec(volumes, containers),
      caller |-> PodSpec(podSpec.volumes, containers)]

\* PodSpecSemanticallyEqual(p1, p2): the result and the caller's two pod
\* specs after the call.
PodSpecSemanticallyEqual(p1, p2) ==
  LET p1Spec == sanitizeProjectedVolumesAndMounts(p1)
      p2Spec == sanitizeProjectedVolumesAndMounts(p2)
  IN [result |-> p1Spec.returned = p2Spec.returned,
      p1 |-> p1Spec.caller, p2 |-> p2Spec.caller]

\* input is the pair of pod specs the caller holds before any call, output
\* the results of the calls made and the pair as the caller holds it now.
InitPodSpec ==
  /\ input \in {[p1 |-> x, p2 |-> y] : x \in PodSpecs, y \in PodSpecs}
  /\ output = [results |-> <<>>, p1 |-> input.p1, p2 |-> input.p2]
  /\ nodes = {}
  /\ cfg = ConfigMap(<<"1">>, <<"2">>)
  /\ opts = Options(TRUE, TRUE, 10, TRUE, 0)
  /\ provQueue = <<>>
  /\ provStatus = "SUCCEEDED"
  /\ a = NewStaticAutoscaler
  /\ snapshot = SnapshotClear
  /\ pc = "idle"
  /\ currentTime = StartTime
  /\ loc = InitLoc
  /\ ret = "none"
  /\ log = <<>>

\* The caller compares its two pod specs, a first and a second time.
CallPodSpecSemanticallyEqual ==
  /\ Len(output.results) < 2
  /\ LET r == PodSpecSemanticallyEqual(output.p1, output.p2)
     IN output' = [results |-> Append(output.results, r.result),
                   p1 |-> r.p1, p2 |-> r.p2]
  /\ pc' = "returned"
  /\ UNCHANGED <<nodes, cfg, opts, provQueue, provStatus, a, snapshot,
                 currentTime, loc, ret, log, input>>

SpecPodSpec == InitPodSpec /\ [][CallPodSpecSemanticallyEqual]_vars

\* ================================================================== claims

\* What the claims read off a state.
Workers == Cardinality(nodes)
MinWorkers == GetMinSizeNodeGroup(cfg).value
MaxWorkers == GetMaxSizeNodeGroup(cfg).value
Returned_ == pc = "idle" /\ ret \notin {"none", "running"}
ReturnedNil == pc = "idle" /\ ret = "nil"
EventAt(e, n) == \E i \in 1..Len(log) : log[i] = Ev(e, n)
PredicateBlocked == EventAt("checkWorkerNodeCanBeRemove", 0)
BoundsRequested == Logged("PerformScaleUp") \/ Logged("PerformScaleDown")
PlannerRequested ==
  Logged("ScaleUp.PerformScaleUp") \/ Logged("TryToScaleDown.PerformScaleDown")

\* C1 (bounds-respect): after a RunOnce that returns no error, under bounds
\* with min <= max and with no request of a planner in the iteration, the
\* number of worker nodes is within [min_workers, max_workers], or a provider
\* request is in flight, or the removability predicate blocked the correction.
C1_BoundsRespect ==
  (ReturnedNil /\ MinWorkers <= MaxWorkers /\ ~PlannerRequested)
    => \/ Workers \in MinWorkers..MaxWorkers
       \/ provQueue # <<>>
       \/ PredicateBlocked

\* C2 (no concurrent writes): at most one provider mutating call is
\* outstanding at any moment; a further call is issued only once the previous
\* one reached a terminal status.
C2_NoConcurrentWrites == Len(provQueue) <= 1

\* A planner's request is outstanding in an iteration whose bounds block had
\* issued and seen the end of a request of its own.
C2_Witness ==
  /\ Logged("PerformScaleUp")
  /\ Logged("ScaleUp.PerformScaleUp")
  /\ Len(provQueue) = 1

\* C3 (cooldown monotonicity): no step lowers lastScaleUpTime,
\* lastScaleDownDeleteTime or lastScaleDownFailTime.
C3_CooldownMonotonic ==
  [][/\ a'.lastScaleUpTime >= a.lastScaleUpTime
     /\ a'.lastScaleDownDeleteTime >= a.lastScaleDownDeleteTime
     /\ a'.lastScaleDownFailTime >= a.lastScaleDownFailTime]_vars

\* After a second iteration, two of the stamps have been set by RunOnce, at
\* different times.
C3_Witness ==
  /\ pc = "idle"
  /\ a.lastScaleDownDeleteTime > StartTime - Hour
  /\ a.lastScaleUpTime > a.lastScaleDownDeleteTime
\* The worker count of the first node listing of the iteration was within
\* the bounds.
FirstListingWithinBounds ==
  \E i \in 1..Len(log) :
    /\ log[i].ev = "obtainNodeLists"
    /\ \A j \in 1..(i - 1) : log[j].ev # "obtainNodeLists"
    /\ log[i].n \in MinWorkers..MaxWorkers

\* A RunOnce other than the first one returned; it found the cluster within
\* bounds and no unschedulable workload.
SteadyRun ==
  /\ Returned_
  /\ ~Logged("ReadyNodeLister.List")
  /\ FirstListingWithinBounds
  /\ \A i \in 1..Len(log) :
       log[i].ev = "UnschedulablePodLister.List" => log[i].n <= 0

MutatingEvents ==
  {"PerformScaleUp", "PerformScaleDown", "ScaleUp.PerformScaleUp",
   "TryToScaleDown.PerformScaleDown", "SoftTaintUnneededNodes",
   "CleanAllToBeDeleted", "CleanAllDeletionCandidates"}

C5_DeferredStatusWrite ==
  Returned_ =>
    /\ opts.WriteStatusConfigMap => Logged("WriteStatusConfigMap")
    /\ Logged("ScaleUpStatusProcessor.Process")
    /\ Logged("AutoscalingStatusProcessor.Process")

\* C6 (node-list failure): a RunOnce in which a node listing failed returns
\* ApiCallError and issued no provider request.
C6_ListFailure ==
  (Returned_ /\ EventAt("obtainNodeLists", -1))
    => /\ ret = "ApiCallError"
       /\ ~BoundsRequested
       /\ ~PlannerRequested

\* C7 (snapshot containment): every workload of the snapshot is on a node of
\* the snapshot, and a RunOnce in which AddPod failed for a nominated node
\* that the snapshot does not hold returns InternalError.
C7_SnapshotContainment ==
  /\ \A pr \in snapshot.pods : pr[2] \in snapshot.nodes
  /\ (Returned_ /\ EventAt("AddPod", 0)) => ret = "InternalError"

\* A workload was added on its nominated node, the next one named a node the
\* snapshot does not hold, and RunOnce returned InternalError.
C7_Witness ==
  /\ Returned_
  /\ ret = "InternalError"
  /\ EventAt("AddPod", 1)
  /\ EventAt("AddPod", 0)

\* The pods of the call that are hosted on the node to remove.
Hosted == {i \in 1..Len(input.pods) : input.pods[i].nodeName = input.workerNodeName}
FirstOwnerNotDaemonSet(pod) ==
  pod.ownerReferences # <<>> /\ pod.ownerReferences[1].kind # "DaemonSet"
ReplicaRule(pod) ==
  /\ FirstOwnerNotDaemonSet(pod)
  /\ ReplicaSetReplicas(ReplicaSets, pod.ownerReferences[1].name) = 1

\* C8 (local-volume rule), as the specification states it: when every hosted workload has an owner reference
\* and one of them declares an emptyDir volume, whatever the kind of its
\* owner, the predicate reports the node as not removable.
C8_EmptyDirBlocks ==
  (/\ output # "none"
   /\ \A i \in Hosted : input.pods[i].ownerReferences # <<>>
   /\ \E i \in Hosted : HasEmptyDir(input.pods[i]))
    => output = "false"

\* C8, amended: the predicate never reports removable when a hosted workload
\* whose first owner is no DaemonSet declares an emptyDir volume (it reports
\* not removable, or panics on a hosted workload without owner reference);
\* when every hosted workload is owned by a DaemonSet it reports removable,
\* emptyDir volumes or not.
C8_EmptyDirBlocksAmended ==
  output # "none" =>
    /\ (\E i \in Hosted : /\ FirstOwnerNotDaemonSet(input.pods[i])
                           /\ HasEmptyDir(input.pods[i]))
         => \/ output = "false"
            \/ /\ output = "panic"
               /\ \E i \in Hosted : input.pods[i].ownerReferences = <<>>
    /\ (\A i \in Hosted : /\ input.pods[i].ownerReferences # <<>>
                           /\ input.pods[i].ownerReferences[1].kind = "DaemonSet")
         => output = "true"

\* The predicate reported not removable for a node whose only blocking
\* workload declares an emptyDir volume and belongs to no replica set of one
\* replica.
C8_Witness ==
  /\ output = "false"
  /\ \E i \in Hosted : /\ FirstOwnerNotDaemonSet(input.pods[i])
                        /\ HasEmptyDir(input.pods[i])
  /\ \A i \in Hosted : ~ReplicaRule(input.pods[i])

\* C9 (replica rule): the predicate reports not removable when a hosted
\* workload whose first owner is not a DaemonSet belongs to a replica set of
\* one replica, and removable when no hosted workload meets the replica rule
\* or declares an emptyDir volume.
C9_ReplicaRule ==
  output # "none" =>
    /\ (\E i \in Hosted : ReplicaRule(input.pods[i])) => output = "false"
    /\ (\A i \in Hosted : ~ReplicaRule(input.pods[i]) /\ ~HasEmptyDir(input.pods[i]))
         => output = "true"

\* RunOnce is past its bounds block.
PastBounds == pc \notin {"idle", "exited", "cmpMin", "scaleUp", "cmpMax", "scaleDown"}

\* C10 (strict comparison): with W the worker count RunOnce computed, the
\* bounds block requested a scale-up if and only if W < min_workers, of
\* min_workers - W nodes; a scale-down only if W > max_workers, of
\* W - max_workers nodes; and nothing when min_workers <= W <= max_workers.
C10_StrictBounds ==
  PastBounds =>
    LET W == loc.numberWorkerNode IN
    /\ Logged("PerformScaleUp") <=> W < MinWorkers
    /\ Logged("PerformScaleDown") => (W > MaxWorkers /\ W >= MinWorkers)
    /\ \A i \in 1..Len(log) :
         /\ log[i].ev = "PerformScaleUp" => log[i].n = MinWorkers - W
         /\ log[i].ev = "PerformScaleDown" => log[i].n = W - MaxWorkers
    /\ (MinWorkers <= W /\ W <= MaxWorkers) => ~BoundsRequested

\* The listing counted exactly min_workers = max_workers workers and the
\* bounds block went on without a request.
C10_Witness ==
  /\ pc = "relist"
  /\ EventAt("obtainNodeLists", MinWorkers)
  /\ loc.numberWorkerNode = MinWorkers
  /\ loc.numberWorkerNode = MaxWorkers
  /\ ~BoundsRequested

\* The call of BestOptions has returned.
ExpanderReturned == pc = "returned"

\* C11 (fail-open expander): when the client is not configured, or the remote
\* BestOptions call returns an error, BestOptions returns exactly the option
\* list it was given, same content and same order.
C11_FailOpen ==
  (ExpanderReturned /\ (input.grpcClientNil \/ input.reply.err))
    => output = input.expansionOptions

\* The remote call of a configured client failed although a response naming
\* one of several options came with the error, and every option came back.
C11_Witness ==
  /\ ExpanderReturned
  /\ ~input.grpcClientNil
  /\ input.reply.err
  /\ input.reply.options # <<>>
  /\ Len(input.expansionOptions) >= 2
  /\ output = input.expansionOptions

\* The entries of a response that are not nil and name the group of an option.
Endorsed(response, expansionOptions) ==
  SelectSeq(response,
            LAMBDA e : /\ ~e.isNil
                       /\ \E i \in 1..Len(expansionOptions) :
                            expansionOptions[i].nodeGroupId = e.nodeGroupId)

\* The output lists, entry by entry, the option of each endorsed group.
FollowsResponse(response, expansionOptions, result) ==
  LET V == Endorsed(response, expansionOptions)
  IN /\ Len(result) = Len(V)
     /\ \A k \in 1..Len(V) :
          /\ result[k].nodeGroupId = V[k].nodeGroupId
          /\ \E i \in 1..Len(expansionOptions) : expansionOptions[i] = result[k]

\* The remote call succeeded.
RemoteSucceeded == ExpanderReturned /\ ~input.grpcClientNil /\ ~input.reply.err

\* The response is nil or lists nothing.
NilOrEmptyResponse ==
  input.reply.responseNil \/ input.reply.optionsNil \/ input.reply.options = <<>>

\* C12 (response filtering): after a successful remote call BestOptions
\* returns the options whose node-group id the response lists, in the order of
\* the response, without the entries that are nil or name no option; a nil or
\* empty response returns the input list.
C12_ResponseOrder ==
  RemoteSucceeded =>
    IF NilOrEmptyResponse THEN output = input.expansionOptions
    ELSE FollowsResponse(input.reply.options, input.expansionOptions, output)

\* C12 as the code has it: a response of which no entry is left after the
\* nil and unknown ones are dropped returns the input list as well.
C12_ResponseOrderAmended ==
  RemoteSucceeded =>
    IF \/ NilOrEmptyResponse
       \/ Endorsed(input.reply.options, input.expansionOptions) = <<>>
    THEN output = input.expansionOptions
    ELSE FollowsResponse(input.reply.options, input.expansionOptions, output)

\* The response endorsed two of three options in an order that is not the
\* order of the input, and the output follows the response.
C12_Witness ==
  /\ RemoteSucceeded
  /\ ~NilOrEmptyResponse
  /\ Len(input.expansionOptions) = MaxOptions
  /\ Len(output) = 2
  /\ output[1] = input.expansionOptions[2]
  /\ output[2] = input.expansionOptions[1]

\* C13 (scale-up events): Process emits exactly one event for every workload
\* of PodsRemainUnschedulable, in order, TriggerScaleUp when the first listed
\* event message of the workload contains "Insufficient" and NotTriggerScaleUp
\* when it does not; a workload whose event listing is empty or failed gets
\* its event too, and the processor does not abort.
C13_OneEventEach ==
  pc \in {"returned", "exited"} =>
    /\ ~output.panic
    /\ Len(output.events) = Len(input)
    /\ \A k \in 1..Len(input) :
         /\ output.events[k].pod = k
         /\ output.events[k].reason \in {"TriggerScaleUp", "NotTriggerScaleUp"}
         /\ Len(input[k].items) > 0 =>
              (output.events[k].reason = "TriggerScaleUp"
                 <=> Contains(input[k].items[1], Insufficient))

\* Every call e1 of the iteration was made before every call e2.
Before(e1, e2) ==
  \A i \in {k \in 1..Len(log) : log[k].ev = e1},
     j \in {k \in 1..Len(log) : log[k].ev = e2} : i < j

\* The listings read from the orchestrator, the construction of the snapshot,
\* the planners and the status write, as RunOnce records them.
OrchestratorReads ==
  {"ReadyNodeLister.List", "obtainNodeLists", "ScheduledPodLister.List",
   "DaemonSetLister.List", "UnschedulablePodLister.List",
   "PodDisruptionBudgetLister.List"}
ReadsBeforeSnapshot ==
  {"ReadyNodeLister.List", "obtainNodeLists", "ScheduledPodLister.List",
   "DaemonSetLister.List"}
SnapshotBuilt == "initializeClusterSnapshot"
Planners == {"ScaleUp", "TryToScaleDown"}
StatusWrite == "WriteStatusConfigMap"

\* C14 (ordering within an iteration): every listing read from the
\* orchestrator comes before the construction of the snapshot, the
\* construction of the snapshot before every planner invocation, and every
\* planner invocation before the status write.
C14_Ordering ==
  /\ \A r \in OrchestratorReads : Before(r, SnapshotBuilt)
  /\ \A p \in Planners : Before(SnapshotBuilt, p) /\ Before(p, StatusWrite)

\* C14 as the code has it: the node, scheduled-workload and daemon-set
\* listings come before the construction of the snapshot; the
\* unschedulable-workload listing comes after it and before every planner;
\* the disruption-budget listing comes after the snapshot (and after the
\* scale-up planner, when that ran) and before the scale-down planner; the
\* snapshot comes before every planner and every planner before the status
\* write.
C14_OrderingAmended ==
  /\ \A r \in ReadsBeforeSnapshot : Before(r, SnapshotBuilt)
  /\ Before(SnapshotBuilt, "UnschedulablePodLister.List")
  /\ \A p \in Planners : Before("UnschedulablePodLister.List", p)
  /\ Before(SnapshotBuilt, "PodDisruptionBudgetLister.List")
  /\ Before("ScaleUp", "PodDisruptionBudgetLister.List")
  /\ Before("PodDisruptionBudgetLister.List", "TryToScaleDown")
  /\ \A p \in Planners : Before(SnapshotBuilt, p) /\ Before(p, StatusWrite)

\* An iteration that listed, built the snapshot, ran both planners and wrote
\* the status has returned.
C14_Witness ==
  /\ Returned_
  /\ \A e \in OrchestratorReads \cup Planners \cup {SnapshotBuilt, StatusWrite} :
       Logged(e)

\* The configmap is missing, or the value of the key is not a base-10 integer.
Unreadable(v) == ~cfg.exists \/ (v # NoKey /\ Atoi(v).err)

\* C15 (fatal bound read): when the configmap is missing or the value of
\* min_node_group_size (max_node_group_size) is not a base-10 integer, the
\* reader ends in the fatal state with no bound, RunOnce does not get past
\* the comparison that reads it, the process exits as fatal, and the bounds
\* block issues no scale-up (scale-down) request.
C15_FatalRead ==
  /\ Unreadable(cfg.min) =>
        /\ GetMinSizeNodeGroup(cfg).fatal
        /\ pc \in {"idle", "cmpMin", "exited"}
        /\ pc = "exited" => ret = "fatal"
        /\ ~Logged("PerformScaleUp")
        /\ provQueue = <<>>
  /\ Unreadable(cfg.max) =>
        /\ GetMaxSizeNodeGroup(cfg).fatal
        /\ pc \notin {"scaleDown", "pollDown", "pollErrDown", "pollRetryDown"}
        /\ ~Logged("PerformScaleDown")
        /\ (pc = "exited" /\ ~Unreadable(cfg.min) /\ ~Logged("PerformScaleUp"))
             => ret = "fatal"

\* The process exited as fatal on a max_node_group_size that is no integer,
\* in an iteration that counted more workers than any bound read so far.
C15_Witness ==
  /\ pc = "exited"
  /\ ret = "fatal"
  /\ cfg.exists
  /\ ~Unreadable(cfg.min)
  /\ Unreadable(cfg.max)
  /\ loc.numberWorkerNode > MinWorkers
  /\ provQueue = <<>>

\* The requests the bounds block of the iteration has issued.
BoundsRequests ==
  {i \in 1..Len(log) : log[i].ev \in {"PerformScaleUp", "PerformScaleDown"}}

\* A step of RunOnce issues a request of the bounds block.
IssuesBoundsRequest ==
  /\ pc # "idle"
  /\ Len(log') > Len(log)
  /\ log'[Len(log')].ev \in {"PerformScaleUp", "PerformScaleDown"}

\* C16 (one retry): the bounds block of an iteration issues at most two
\* requests, of the same kind and count; the second is issued only by a step
\* that has just observed the status ERROR after the first; and a step that
\* observes SUCCEEDED in the wait after the first request ends the wait and
\* issues nothing.
C16_RetryOnce ==
  /\ [](/\ Cardinality(BoundsRequests) <= 2
        /\ \A i, j \in BoundsRequests : log[i] = log[j])
  /\ [][/\ (IssuesBoundsRequest /\ BoundsRequests # {})
            => /\ provStatus = "ERROR"
               /\ pc \in {"pollErrUp", "pollErrDown"}
               /\ Cardinality(BoundsRequests) = 1
               /\ log'[Len(log')] = log[CHOOSE i \in BoundsRequests : TRUE]
        /\ (pc \in {"pollUp", "pollDown"} /\ provStatus = "SUCCEEDED" /\ pc' # pc)
            => (pc' = "relist" /\ log' = log)]_vars

\* The retried request of the bounds block succeeded: two requests of the
\* same count were issued and RunOnce goes on to the second listing.
C16_Witness ==
  /\ pc = "relist"
  /\ Cardinality(BoundsRequests) = 2
  /\ provStatus = "SUCCEEDED"

\* RunOnce is in a polling loop of its bounds block.
BoundsPolling ==
  pc \in {"pollUp", "pollErrUp", "pollRetryUp", "pollDown", "pollErrDown", "pollRetryDown"}

\* C17 (polling termination): with a provider that reaches a terminal status
\* for every request, the polling of the bounds block always comes to an
\* end, also when the retried request ends in ERROR.
C17_PollingTerminates == BoundsPolling ~> ~BoundsPolling

\* The three cooldown timestamps.
Stamps == <<a.lastScaleUpTime, a.lastScaleDownDeleteTime, a.lastScaleDownFailTime>>

\* C18 (blocked scale-down is a no-op): an iteration that counted more
\* workers than max_workers and whose removability predicate failed has
\* returned nil, and in it no provider request was issued, no planner was
\* invoked and the snapshot was not built; and a step that changes a cooldown
\* timestamp is the step of an iteration that invoked a planner, so the
\* blocked iteration changed none of the three.
C18_BlockedNoOp ==
  /\ [](PredicateBlocked =>
          /\ ReturnedNil
          /\ BoundsRequests = {}
          /\ ~PlannerRequested
          /\ provQueue = <<>>
          /\ \A p \in Planners : ~Logged(p)
          /\ ~Logged(SnapshotBuilt)
          /\ \E i \in 1..Len(log) : /\ log[i].ev = "obtainNodeLists"
                                     /\ log[i].n > MaxWorkers)
  /\ [][Stamps' # Stamps => (\E p \in Planners : Logged(p))']_vars

\* RunOnce counted more workers than max_workers, the predicate failed and
\* the iteration has returned nil.
C18_Witness ==
  /\ PredicateBlocked
  /\ ReturnedNil
  /\ \E i \in 1..Len(log) : log[i].ev = "obtainNodeLists" /\ log[i].n > MaxWorkers
  /\ Stamps = <<NewStaticAutoscaler.lastScaleUpTime,
                NewStaticAutoscaler.lastScaleDownDeleteTime,
                NewStaticAutoscaler.lastScaleDownFailTime>>

\* The iteration found the cluster unhealthy.
Unhealthy == Logged("CleanUpUnneededNodes")

\* A step that changes a cooldown timestamp is the step of an iteration that
\* invoked a planner.
StampsOnlyWithPlanner == Stamps' # Stamps => (\E p \in Planners : Logged(p))'

\* C19 (unhealthy iteration): an iteration whose health verdict is unhealthy
\* issued no provider request anywhere, invoked no planner, cleared the
\* unneeded-node state, changed no cooldown timestamp and returned nil.
C19_UnhealthyNoEffect ==
  /\ [](Unhealthy =>
          /\ ReturnedNil
          /\ BoundsRequests = {}
          /\ ~PlannerRequested
          /\ \A p \in Planners : ~Logged(p)
          /\ a.unneededNodes = {})
  /\ [][StampsOnlyWithPlanner]_vars

\* C19 as the code has it: the bounds block runs before the health check, so
\* the unhealthy iteration may have issued the requests of the bounds block,
\* all of them before the snapshot was built and answered before the return;
\* from the health check on it issues none, invokes no planner, clears the
\* unneeded-node state, changes no cooldown timestamp and returns nil.
C19_UnhealthyNoEffectAmended ==
  /\ [](Unhealthy =>
          /\ ReturnedNil
          /\ \A i \in BoundsRequests, j \in 1..Len(log) :
               log[j].ev = SnapshotBuilt => i < j
          /\ provQueue = <<>>
          /\ ~PlannerRequested
          /\ \A p \in Planners : ~Logged(p)
          /\ a.unneededNodes = {})
  /\ [][StampsOnlyWithPlanner]_vars

\* An iteration whose bounds block requested a scale-up found the cluster
\* unhealthy and returned nil.
C19_Witness ==
  /\ Unhealthy
  /\ ReturnedNil
  /\ Logged("PerformScaleUp")
  /\ a.unneededNodes = {}

\* C20 (age filter): the filter drops exactly the workloads whose age is less
\* than new_pod_scale_up_delay and keeps the others in their order; a workload
\* whose age equals the delay is kept.
C20_AgeFilter ==
  pc = "returned" =>
    output = SelectSeq(input.allUnschedulablePods,
                       LAMBDA p : ~(p.age < input.newPodScaleUpDelay))

\* The ages of the workloads left after the age filter.
RemainingAges ==
  {output.unschedulablePodsToHelp[i].age : i \in 1..Len(output.unschedulablePodsToHelp)}

\* C21 (scale-up decision): with no workload left after the age filter the
\* outcome is not-needed and ScaleUp is not called; with workloads left that
\* are all younger than 2 seconds ScaleUp is not called, scale-down is
\* disabled for the loop and the outcome is in-cooldown; otherwise (the
\* oldest is 2 seconds old or more) ScaleUp is called.
C21_ScaleUpDecision ==
  pc = "returned" =>
    IF RemainingAges = {}
      THEN output.result = "ScaleUpNotNeeded" /\ ~output.ScaleUp
    ELSE IF \A g \in RemainingAges : g < 2 * Second
      THEN /\ output.result = "ScaleUpInCooldown"
           /\ output.disableScaleDownForLoop
           /\ ~output.ScaleUp
    ELSE output.ScaleUp

\* One workload exactly 2 seconds old was left, next to a younger one, and
\* ScaleUp was called.
C21_Witness ==
  /\ pc = "returned"
  /\ RemainingAges = {Second, 2 * Second}
  /\ output.ScaleUp

\* The steps of the scale-down section, as RunOnce records them.
ScaleDownSteps ==
  {"PodDisruptionBudgetLister.List", "UpdateUnneededNodes", "TryToScaleDown",
   "SoftTaintUnneededNodes"}

\* ScaleUp has returned to RunOnce: with an error, or successful.
ScaleUpFailed == pc = "afterUp" /\ loc.typedErr # "nil"
ScaleUpSucceeded ==
  pc = "afterUp" /\ loc.typedErr = "nil" /\ loc.tryResult = "ScaleUpSuccessful"

\* C22 (after ScaleUp): when ScaleUp returns successful, the step that
\* follows sets lastScaleUpTime to the iteration's currentTime, leaves the
\* scale-down result in-cooldown and returns nil; when it returns an error,
\* the step returns that error and leaves lastScaleUpTime alone; in both
\* cases the iteration made no step of the scale-down section; and no other
\* step of RunOnce changes lastScaleUpTime.
C22_AfterScaleUp ==
  /\ [][/\ ScaleUpSucceeded =>
            /\ a'.lastScaleUpTime = currentTime
            /\ loc'.scaleDownResult = "ScaleDownInCooldown"
            /\ loc'.scaleUpResult = "ScaleUpSuccessful"
            /\ pc' = "idle" /\ ret' = "nil"
            /\ \A i \in 1..Len(log') : log'[i].ev \notin ScaleDownSteps
        /\ ScaleUpFailed =>
            /\ a'.lastScaleUpTime = a.lastScaleUpTime
            /\ pc' = "idle" /\ ret' = loc.typedErr
            /\ \A i \in 1..Len(log') : log'[i].ev \notin ScaleDownSteps
        /\ a'.lastScaleUpTime # a.lastScaleUpTime => ScaleUpSucceeded]_vars
  /\ []((Returned_ /\ loc.scaleUpResult = "ScaleUpSuccessful")
          => /\ a.lastScaleUpTime = currentTime
             /\ ret = "nil"
             /\ \A e \in ScaleDownSteps : ~Logged(e))

\* A second or later iteration whose ScaleUp was successful has returned,
\* with lastScaleUpTime at its currentTime.
C22_Witness ==
  /\ Returned_
  /\ loc.scaleUpResult = "ScaleUpSuccessful"
  /\ loc.scaleDownResult = "ScaleDownInCooldown"
  /\ a.lastScaleUpTime = currentTime
  /\ currentTime > StartTime + ClockStep
  /\ Logged("ScaleUp")

\* The conditions of the claim under which scale-down may act.
GateOpen ==
  /\ opts.ScaleDownEnabled
  /\ ~a.disableScaleDownForLoop
  /\ currentTime >= a.lastScaleUpTime + ScaleDownDelayAfterAdd
  /\ currentTime >= a.lastScaleDownFailTime + ScaleDownDelayAfterFailure
  /\ currentTime >= a.lastScaleDownDeleteTime + ScaleDownDelayAfterDelete

\* TryToScaleDown was called and has not returned to RunOnce's return.
InTryToScaleDown ==
  pc \in {"planDown", "planPollDown", "planRetryDown", "afterDown"}

\* C23 (scale-down gate): TryToScaleDown is called only in an iteration with
\* scale-down enabled, not disabled for the loop, outside the three cooldowns
\* and with no node deletion in progress; and the step that reaches the gate
\* (the unneeded-node update has run) ends in-cooldown when a cooldown
\* condition holds, in-progress when only a deletion is in progress, and
\* calls TryToScaleDown otherwise.
C23_ScaleDownGate ==
  /\ []((InTryToScaleDown \/ (pc # "idle" /\ Logged("TryToScaleDown")))
          => /\ InTryToScaleDown
             /\ Logged("TryToScaleDown")
             /\ GateOpen
             /\ EventAt("IsNonEmptyNodeDeleteInProgress", 0)
             /\ ~EventAt("IsNonEmptyNodeDeleteInProgress", 1)
             /\ EventAt("UpdateUnneededNodes", 1))
  /\ [][(pc = "scaleDownGate" /\ EventAt("UpdateUnneededNodes", 1)')
          => IF ~GateOpen
               THEN /\ loc'.scaleDownResult = "ScaleDownInCooldown"
                    /\ pc' = "idle" /\ ret' = "nil"
                    /\ ~Logged("TryToScaleDown")'
             ELSE IF EventAt("IsNonEmptyNodeDeleteInProgress", 1)'
               THEN /\ loc'.scaleDownResult = "ScaleDownInProgress"
                    /\ pc' = "idle" /\ ret' = "nil"
                    /\ ~Logged("TryToScaleDown")'
             ELSE Logged("TryToScaleDown")' /\ pc' = "planDown"]_vars

\* TryToScaleDown was called in the iteration that began exactly
\* ScaleDownDelayAfterDelete after the last deletion started.
C23_Witness ==
  /\ InTryToScaleDown
  /\ Logged("TryToScaleDown")
  /\ currentTime = a.lastScaleDownDeleteTime + ScaleDownDelayAfterDelete

\* TryToScaleDown has returned to RunOnce.
TryToScaleDownReturned == pc = "afterDown"

\* The step runs the scale-down section up to the gate and leaves the
\* scale-down result at error: the disruption-budget listing or the search
\* for unneeded nodes failed.
GateEndsInError == pc = "scaleDownGate" /\ loc'.scaleDownResult = "ScaleDownError"

\* C24 (scale-down stamps): when TryToScaleDown reports node-delete-started
\* lastScaleDownDeleteTime is set to the iteration's currentTime; and whenever
\* the scale-down of an iteration ends in error, TryToScaleDown returning an
\* error or the search for unneeded nodes failing, lastScaleDownFailTime is
\* set to currentTime and the error is returned.
C24_ScaleDownStamps ==
  [][/\ (TryToScaleDownReturned /\ loc.tryResult = "ScaleDownNodeDeleteStarted")
        => a'.lastScaleDownDeleteTime = currentTime
     /\ (TryToScaleDownReturned /\ loc.typedErr # "nil")
        => (a'.lastScaleDownFailTime = currentTime /\ ret' = loc.typedErr)
     /\ GateEndsInError
        => (a'.lastScaleDownFailTime = currentTime /\ ret' \notin {"nil", "running"})]_vars

\* C24 as the code has it: lastScaleDownFailTime is set only when
\* TryToScaleDown returns an error; a failure of the disruption-budget
\* listing or of the search for unneeded nodes leaves the result at error and
\* returns the error without touching lastScaleDownFailTime.  No other step
\* changes the two stamps.
C24_ScaleDownStampsAmended ==
  [][/\ (TryToScaleDownReturned /\ loc.tryResult = "ScaleDownNodeDeleteStarted")
        => a'.lastScaleDownDeleteTime = currentTime
     /\ (TryToScaleDownReturned /\ loc.typedErr # "nil")
        => (a'.lastScaleDownFailTime = currentTime /\ ret' = loc.typedErr)
     /\ GateEndsInError
        => /\ a'.lastScaleDownFailTime = a.lastScaleDownFailTime
           /\ ret' \notin {"nil", "running"}
     /\ a'.lastScaleDownFailTime # a.lastScaleDownFailTime
        => (TryToScaleDownReturned /\ loc.typedErr # "nil")
     /\ a'.lastScaleDownDeleteTime # a.lastScaleDownDeleteTime
        => (TryToScaleDownReturned /\ loc.tryResult = "ScaleDownNodeDeleteStarted")]_vars

\* TryToScaleDown returned an error: the iteration returned it and
\* lastScaleDownFailTime is the iteration's currentTime.
C24_Witness ==
  /\ Returned_
  /\ Logged("TryToScaleDown")
  /\ ret = "CloudProviderError"
  /\ a.lastScaleDownFailTime = currentTime

\* C25 (soft taints after TryToScaleDown): the step that follows
\* TryToScaleDown applies the soft taints if and only if the result is
\* no-nodes-deleted or no-unneeded and MaxBulkSoftTaintCount is not 0, so
\* never after node-delete-started; and soft taints are applied in no
\* iteration that did not call TryToScaleDown.
C25_SoftTaint ==
  /\ [][TryToScaleDownReturned =>
          /\ Logged("SoftTaintUnneededNodes")'
               <=> /\ loc.tryResult \in {"ScaleDownNoNodeDeleted", "ScaleDownNoUnneeded"}
                   /\ opts.MaxBulkSoftTaintCount # 0
          /\ loc.tryResult = "ScaleDownNodeDeleteStarted"
               => ~Logged("SoftTaintUnneededNodes")']_vars
  /\ [](Logged("SoftTaintUnneededNodes")
          => /\ Logged("TryToScaleDown")
             /\ CountLogged("SoftTaintUnneededNodes") = 1
             /\ Before("TryToScaleDown", "SoftTaintUnneededNodes")
             /\ opts.MaxBulkSoftTaintCount # 0)

\* An iteration called TryToScaleDown, applied the soft taints and returned.
C25_Witness ==
  /\ Returned_
  /\ Logged("TryToScaleDown")
  /\ Logged("SoftTaintUnneededNodes")
  /\ ~Logged("TryToScaleDown.PerformScaleDown")

\* The step reaches the cooldown gate with unneeded nodes found and ends the
\* iteration in cooldown.
GateEndsInCooldown ==
  /\ pc = "scaleDownGate"
  /\ pc' = "idle"
  /\ EventAt("UpdateUnneededNodes", 1)'
  /\ loc'.scaleDownResult = "ScaleDownInCooldown"
  /\ a'.unneededNodes # {}

\* C26 (soft taints in cooldown): in an iteration where the scale-down
\* cooldown is active and MaxBulkSoftTaintCount is not 0, the soft taint is
\* applied to the unneeded nodes and no node is deleted.
C26_CooldownSoftTaint ==
  [][(GateEndsInCooldown /\ opts.MaxBulkSoftTaintCount # 0)
       => /\ Logged("SoftTaintUnneededNodes")'
          /\ ~Logged("TryToScaleDown")'
          /\ nodes' = nodes]_vars

\* A call the cleanup makes is in the log of the iteration.
CleanupAttempted ==
  \/ Logged("ReadyNodeLister.List")
  \/ Logged("CleanAllToBeDeleted")
  \/ Logged("CleanAllDeletionCandidates")

\* The step is the entry of a RunOnce call.
RunOnceCalled == pc = "idle" /\ pc' # "idle"

\* No RunOnce call has been made on the instance.
NeverCalled == ret = "none"

\* C27 (one-time cleanup): the first RunOnce call on an instance attempts the
\* cleanup of stale taints and leaves initialized true, also when listing
\* the ready nodes failed (then nothing is cleaned); no later call attempts
\* the cleanup, and initialized never becomes false again.
C27_CleanupOnce ==
  /\ [](a.initialized <=> ~NeverCalled)
  /\ [][/\ RunOnceCalled
             => /\ a'.initialized
                /\ CleanupAttempted' <=> NeverCalled
                /\ EventAt("ReadyNodeLister.List", 0)'
                     => ~(Logged("CleanAllToBeDeleted")'
                          \/ Logged("CleanAllDeletionCandidates")')
                /\ EventAt("ReadyNodeLister.List", 1)'
                     => /\ Logged("CleanAllToBeDeleted")'
                        /\ Logged("CleanAllDeletionCandidates")'
                             <=> opts.MaxBulkSoftTaintCount = 0
        /\ a.initialized => a'.initialized
        /\ (~RunOnceCalled /\ ~CleanupAttempted) => ~CleanupAttempted']_vars

\* A later call on the instance has begun: no cleanup was attempted in it.
C27_Witness ==
  /\ pc = "cmpMin"
  /\ a.initialized
  /\ currentTime = StartTime + MaxElapsed * ClockStep
  /\ ~CleanupAttempted

\* The position in the log of the last call of reset, 0 when there is none.
LastReset ==
  LET rs == {i \in 1..Len(log) : log[i].ev = "reset"}
  IN IF rs = {} THEN 0 ELSE CHOOSE i \in rs : \A j \in rs : j <= i

\* The call was made in the current iteration: after the last reset.
CalledSinceReset(e, n) ==
  \E i \in (LastReset + 1)..Len(log) : log[i] = Ev(e, n)

\* The call was made in an earlier iteration and not in the current one.
CalledBeforeResetOnly(e, n) ==
  /\ \E i \in 1..LastReset : log[i] = Ev(e, n)
  /\ ~CalledSinceReset(e, n)

\* The step is the entry of a RunOnce call: reset is the call it adds.
ResetCalled == log' # log /\ log'[Len(log')].ev = "reset"

\* C28 (callbacks reset): the entry of RunOnce leaves the scale-down-disable
\* flag false and no extra value set, whatever the iteration before left; so
\* in every iteration the flag is true exactly when it was set in this
\* iteration, a key is set exactly when it was stored in this iteration, and
\* a read finds only a key stored in this iteration.
C28_CallbacksReset ==
  /\ [][ResetCalled
          => /\ ~output'.disableScaleDownForLoop
             /\ DOMAIN output'.extraValues = {}
             /\ \A k \in ExtraKeys : ~GetExtraValue(output', k).found]_vars
  /\ [](/\ output.disableScaleDownForLoop
             <=> CalledSinceReset("DisableScaleDownForLoop", 0)
        /\ \A k \in ExtraKeys :
             k \in DOMAIN output.extraValues <=> CalledSinceReset("SetExtraValue", k)
        /\ (input.found /\ log # <<>> /\ log[Len(log)].ev = "GetExtraValue")
             => CalledSinceReset("SetExtraValue", input.key))

\* Scale-down was disabled and a value stored in one iteration; in the next
\* the flag is false and a read of that key found nothing.
C28_Witness ==
  /\ pc = "running"
  /\ CalledBeforeResetOnly("DisableScaleDownForLoop", 0)
  /\ \E k \in ExtraKeys :
       /\ CalledBeforeResetOnly("SetExtraValue", k)
       /\ log[Len(log)] = Ev("GetExtraValue", k)
       /\ input = [key |-> k, value |-> 0, found |-> FALSE]
  /\ ~output.disableScaleDownForLoop

\* A workload hosted on the node to remove has no owner references.
Ownerless(pod) == pod.ownerReferences = <<>>

\* C29 (ownerless workload): when a workload hosted on the node to remove has
\* no owner references, the predicate completes without panic, and it reports
\* removable when no other hosted workload blocks: the ownerless workload
\* itself does not block under the replica rule.
C29_OwnerlessCompletes ==
  (/\ output # "none"
   /\ \E i \in Hosted : Ownerless(input.pods[i]))
    => /\ output \in {"true", "false"}
       /\ (\A i \in Hosted : \/ Ownerless(input.pods[i])
                             \/ ~FirstOwnerNotDaemonSet(input.pods[i])
                             \/ ~PodBlocks(input.pods[i], ReplicaSets))
            => output = "true"

\* C30 (bounds snapshot): the comparison with a bound and the count
\* requested use the same value of the bound, so every count the bounds
\* block requests is at least 1, also when the configmap is replaced during
\* the iteration.
C30_BoundsSnapshot ==
  \A i \in BoundsRequests : log[i].n >= 1

\* The pods of the listing hosted on the node of that name.
HostedOn(name) == {i \in 1..Len(input.pods) : input.pods[i].nodeName = name}

\* The predicate's rules, stated for the node of that name: it completes (no
\* hosted pod without owner reference) and no hosted pod blocks.
PassesPredicate(name) ==
  \A i \in HostedOn(name) :
    /\ input.pods[i].ownerReferences # <<>>
    /\ \/ input.pods[i].ownerReferences[1].kind = "DaemonSet"
       \/ /\ ~ReplicaRule(input.pods[i])
          /\ ~HasEmptyDir(input.pods[i])

\* The worker count of the branch and the maximum it read.
BranchW == Cardinality(input.workerNodeNameList)
BranchMax == GetMaxSizeNodeGroup(cfg).value
BranchMin == GetMinSizeNodeGroup(cfg).value

Positions(e) == {i \in 1..Len(log) : log[i].ev = e}

\* The iteration returned through the deferred function, whose last call is
\* the autoscaling status processor.
ReturnedDeferred ==
  /\ Returned_
  /\ log # <<>>
  /\ log[Len(log)].ev = "AutoscalingStatusProcessor.Process"

\* The call of that name belongs to the deferred function: nothing but
\* deferred calls follows it.
InDeferred(e) ==
  \A i \in Positions(e) : \A j \in (i + 1)..Len(log) :
    log[j].ev \in {"ScaleUpStatusProcessor.Process",
                   "ScaleDownStatusProcessor.Process",
                   "AutoscalingStatusProcessor.Process"}

\* The call of processor sp directly follows the attempt, the last call at
\* made for it.
AtAttempt(sp, at) ==
  \A i \in Positions(sp) : \E j \in Positions(at) :
    /\ j < i
    /\ \A k \in (j + 1)..(i - 1) : log[k].ev \notin
         {"WriteStatusConfigMap", "AutoscalingStatusProcessor.Process"}

\* C32 (status processors once): in no iteration is a status processor
\* called twice; an iteration that returns through the deferred function has
\* called the scale-up status processor exactly once and the scale-down
\* status processor exactly once when it is configured, never otherwise; the
\* call follows the attempt when ScaleUp (TryToScaleDown) was called and
\* is made by the deferred function when it was not.
C32_ProcessorsOnce ==
  /\ CountLogged("ScaleUpStatusProcessor.Process") <= 1
  /\ CountLogged("ScaleDownStatusProcessor.Process") <= 1
  /\ Logged("ScaleDownStatusProcessor.Process") => opts.ScaleDownStatusProcessor
  /\ ReturnedDeferred =>
       /\ CountLogged("ScaleUpStatusProcessor.Process") = 1
       /\ CountLogged("ScaleDownStatusProcessor.Process")
            = IF opts.ScaleDownStatusProcessor THEN 1 ELSE 0
       /\ IF Logged("ScaleUp")
            THEN /\ AtAttempt("ScaleUpStatusProcessor.Process", "ScaleUp")
                 /\ Before("ScaleUpStatusProcessor.Process",
                           "AutoscalingStatusProcessor.Process")
                 /\ opts.WriteStatusConfigMap
                      => Before("ScaleUpStatusProcessor.Process", "WriteStatusConfigMap")
            ELSE InDeferred("ScaleUpStatusProcessor.Process")
       /\ IF Logged("TryToScaleDown")
            THEN /\ AtAttempt("ScaleDownStatusProcessor.Process", "TryToScaleDown")
                 /\ opts.WriteStatusConfigMap /\ opts.ScaleDownStatusProcessor
                      => Before("ScaleDownStatusProcessor.Process", "WriteStatusConfigMap")
            ELSE InDeferred("ScaleDownStatusProcessor.Process")

\* ScaleUp was attempted and TryToScaleDown was not: the scale-up status
\* processor was called after the attempt, the scale-down one by the deferred
\* function.
C32_Witness ==
  /\ ReturnedDeferred
  /\ Logged("ScaleUp")
  /\ ~Logged("TryToScaleDown")
  /\ opts.WriteStatusConfigMap
  /\ Before("ScaleUpStatusProcessor.Process", "WriteStatusConfigMap")
  /\ Before("WriteStatusConfigMap", "ScaleDownStatusProcessor.Process")

\* ExitCleanUp has run.
Exited == pc = "exited" /\ Logged("processors.CleanUp")

\* C33 (exit clean-up): ExitCleanUp deletes the status configmap if and only
\* if status writing is enabled, and in every case it stops the background
\* task of the cluster state registry: after it no task that Start started
\* is running.
C33_ExitCleanUp ==
  Exited =>
    /\ Logged("DeleteStatusConfigMap") <=> opts.WriteStatusConfigMap
    /\ Logged("clusterStateRegistry.Start") => Logged("clusterStateRegistry.Stop")
    /\ ~output.registryRunning

RequestingIterations ==
  {i \in 1..Len(output) : output[i].up \/ output[i].down}

\* C35 (bounds enforcement converges): with the configmap fixed, whatever
\* its values, a provider that carries out every request, every node listing
\* succeeding and no planner acting, the bounds block issues a request in at
\* most one iteration: once it has, no later iteration's bounds block issues
\* one.
C35_Converges ==
  (\A i \in 1..Len(output) : output[i].listed)
    => Cardinality(RequestingIterations) <= 1

\* C36 (candidate exists): whenever the over-maximum branch requests a
\* scale-down, the removability predicate was evaluated for the name of one
\* of the workers; when no worker's name ends with "worker<W>" the candidate
\* is the empty name and no request is issued.
C36_CandidateExists ==
  /\ output.requested => output.workerNameToRemove \in input.workerNodeNameList
  /\ (output.over /\ output.workerNameToRemove = EmptyName) => ~output.requested

\* The configmap exists and has no key of that value.
KeyAbsent(v) == cfg.exists /\ v = NoKey

C38_NonEmptySubset ==
  (ExpanderReturned /\ input.expansionOptions # <<>>)
    => /\ output # <<>>
       /\ \A k \in 1..Len(output) :
            \E i \in 1..Len(input.expansionOptions) :
              output[k] = input.expansionOptions[i]

\* The response named the same group twice and the option came back twice.
C38_Witness ==
  /\ RemoteSucceeded
  /\ Len(input.expansionOptions) >= 2
  /\ Len(input.reply.options) = 2
  /\ input.reply.options[1] = input.reply.options[2]
  /\ Len(output) = 2
  /\ output[1] = output[2]
  /\ output[1] = input.expansionOptions[2]

\* The volume mounts of the containers of a pod spec, container by container.
MountsOf(podSpec) ==
  [i \in 1..Len(podSpec.containers) |-> podSpec.containers[i].volumeMounts]

\* C39 (arguments unchanged): after PodSpecSemanticallyEqual the caller's two
\* pod specs are what they were before: the same volumes and, for every
\* container, the same volume mounts, those of projected volumes included;
\* and a second call on the same pair gives the result of the first.
C39_ArgumentsUnchanged ==
  output.results # <<>> =>
    /\ output.p1.volumes = input.p1.volumes
    /\ output.p2.volumes = input.p2.volumes
    /\ MountsOf(output.p1) = MountsOf(input.p1)
    /\ MountsOf(output.p2) = MountsOf(input.p2)
    /\ Len(output.results) = 2 => output.results[1] = output.results[2]

====
